---- MODULE Spec2Model ----
(***************************************************************************)
(* ws-lite: the WebSocket frame decoder (src/src/dataframe.rs) and frame   *)
(* encoder (src/src/message.rs) as a state machine over byte buffers.      *)
(*                                                                         *)
(* A byte is a number in 0..255, a Vec<u8> / &[u8] is a sequence of bytes  *)
(* (1-based here, 0-based in the source).  A usize is 64 bits wide and is  *)
(* kept as its 8 big-endian bytes (U64), so that a declared payload length *)
(* of up to 2^64-1 and the wrap-around of start + length are exact.        *)
(* A Rust panic is the result value Panic; every operator that models a    *)
(* function that can panic returns Ret(v) or Panic.                        *)
(***************************************************************************)
EXTENDS Integers, Sequences, FiniteSets, TLC

VARIABLES
    build,      \* "debug" (overflow checks on) or "release" (wrapping arithmetic)
    message,    \* the Message handed to the encoder, or NoMessage
    output,     \* WriteMessage.output: the encoder's buffer
    input,      \* the buffer handed to DataFrame::new
    data,       \* DataFrame.data, after construction
    pc,         \* "message", "encoded", "start", "constructed", "panicked",
                \* "size", "pushed", "request", "done"
    last,       \* the last accessor call on the DataFrame: [op, ret]
    data_len,   \* data.len() as u64 of a payload given to the encoder
    len_bytes,  \* the length bytes the encoder pushed for data_len
    lines,      \* the header lines a client put into its request
    request,    \* the request buffer handed to the handshake
    headers,    \* the WsHeaders extracted from the request
    response,   \* what the handshake entry point returned: [op, ret]
    plain,      \* the bytes a caller is about to give to mask_data
    masking_key, \* the masking key of the caller
    buffer_mut, \* the caller's data: &mut [u8], as mask_data has left it
    passes,     \* how often mask_data has been applied to buffer_mut
    workers     \* the threads that decode or encode, each with its own data

frameVars == <<build, message, output, input, data, last>>
lengthVars == <<data_len, len_bytes>>
handshakeVars == <<lines, request, headers, response>>
maskVars == <<plain, masking_key, buffer_mut, passes>>
vars == <<frameVars, pc, lengthVars, handshakeVars, maskVars, workers>>

\* -------------------------------------------------------------------------
\* Results, options, bytes
\* -------------------------------------------------------------------------

Ret(v) == [tag |-> "ok", val |-> v]
Panic == [tag |-> "panic", val |-> <<>>]
Some(v) == [some |-> TRUE, val |-> v]
None == [some |-> FALSE, val |-> <<>>]

\* r, then F on its value; a panic in r is the panic of the whole call
Bind(r, F(_)) == IF r.tag = "panic" THEN Panic ELSE F(r.val)

Byte == 0..255

RECURSIVE BitAnd(_, _, _)
\* a & b on n-bit values
BitAnd(a, b, n) ==
    IF n = 0 THEN 0
    ELSE ((a % 2) * (b % 2)) + 2 * BitAnd(a \div 2, b \div 2, n - 1)

RECURSIVE BitXor(_, _, _)
\* a ^ b on n-bit values
BitXor(a, b, n) ==
    IF n = 0 THEN 0
    ELSE (((a % 2) + (b % 2)) % 2) + 2 * BitXor(a \div 2, b \div 2, n - 1)

And8(a, b) == BitAnd(a, b, 8)
Xor8(a, b) == BitXor(a, b, 8)

\* -------------------------------------------------------------------------
\* usize: 64-bit unsigned, as 8 big-endian bytes
\* -------------------------------------------------------------------------

\* n as usize, for 0 <= n < 2^31
U64FromNat(n) ==
    <<0, 0, 0, 0, (n \div 16777216) % 256, (n \div 65536) % 256,
      (n \div 256) % 256, n % 256>>

\* the number a usize holds, when it is below 2^31
U64IsSmall(a) == a[1] = 0 /\ a[2] = 0 /\ a[3] = 0 /\ a[4] = 0 /\ a[5] < 128
U64ToNat(a) == a[5] * 16777216 + a[6] * 65536 + a[7] * 256 + a[8]

RECURSIVE U64Carry(_, _, _)
\* the carry into byte i of a + b
U64Carry(a, b, i) ==
    IF i = 8 THEN 0
    ELSE (a[i + 1] + b[i + 1] + U64Carry(a, b, i + 1)) \div 256

U64WrappingAdd(a, b) == [i \in 1..8 |-> (a[i] + b[i] + U64Carry(a, b, i)) % 256]
U64AddOverflows(a, b) == a[1] + b[1] + U64Carry(a, b, 1) >= 256

\* a < b
U64Less(a, b) ==
    \E i \in 1..8 : a[i] < b[i] /\ \A j \in 1..(i - 1) : a[j] = b[j]

\* usize + usize: a debug build panics on overflow, a release build wraps
UsizeAdd(a, b) ==
    IF U64AddOverflows(a, b)
    THEN IF build = "debug" THEN Panic ELSE Ret(U64WrappingAdd(a, b))
    ELSE Ret(U64WrappingAdd(a, b))

\* &d[s..e] with 0-based s, e: panics when s > e or e > d.len()
Slice(d, s, e) ==
    IF s > e \/ e > Len(d) THEN Panic ELSE Ret(SubSeq(d, s + 1, e))

\* -------------------------------------------------------------------------
\* dataframe.rs
\* -------------------------------------------------------------------------

FIN == 128
RSV1 == 64
RSV2 == 32
RSV3 == 16
MASK_OPCODE == 15
IS_MASK == 128
MASK_PAYLOAD_LENGTH == 127

\* mask_data with the key index wrapping one byte early (index % (N - 1))
mask_data_ShortWrap(bytes, mask) ==
    [index \in 1..Len(bytes) |->
        Xor8(bytes[index], mask[((index - 1) % (Len(mask) - 1)) + 1])]

\* mask_data that adds the key byte instead: data[index] += mask[index % N]
mask_data_WrappingAdd(bytes, mask) ==
    [index \in 1..Len(bytes) |->
        (bytes[index] + mask[((index - 1) % Len(mask)) + 1]) % 256]

\* mask_data: data[index] ^= mask[index % N]
mask_data(bytes, mask) ==
    [index \in 1..Len(bytes) |->
        Xor8(bytes[index], mask[((index - 1) % Len(mask)) + 1])]

\* impl From<u8> for Opcode
OpcodeFrom(v) ==
    CASE v = 0 -> "Continuation"
      [] v = 1 -> "Text"
      [] v = 8 -> "Close"
      [] v = 9 -> "Ping"
      [] v = 10 -> "Pong"
      [] OTHER -> "Unknown"

is_fin(d) == IF Len(d) > 0 THEN And8(d[1], FIN) = FIN ELSE FALSE
is_rsv1(d) == IF Len(d) > 0 THEN And8(d[1], RSV1) = RSV1 ELSE FALSE
is_rsv2(d) == IF Len(d) > 0 THEN And8(d[1], RSV2) = RSV2 ELSE FALSE
is_rsv3(d) == IF Len(d) > 0 THEN And8(d[1], RSV3) = RSV3 ELSE FALSE
get_opcode(d) == IF Len(d) > 0 THEN And8(d[1], MASK_OPCODE) ELSE 8
is_mask(d) == IF Len(d) > 1 THEN And8(d[2], IS_MASK) = IS_MASK ELSE FALSE

get_short_payload_length(d) ==
    IF Len(d) > 1 THEN And8(d[2], MASK_PAYLOAD_LENGTH) ELSE 0

\* ExtraSize::Zero(size) | Two | Eight
get_extra_payload_bytes(d) ==
    LET size == get_short_payload_length(d)
    IN  CASE size <= 125 -> [kind |-> "Zero", size |-> size]
          [] size = 126 -> [kind |-> "Two", size |-> 0]
          [] size = 127 -> [kind |-> "Eight", size |-> 0]

\* a usize, or the panic of the slice &self.data[2..10]
get_payload_length(d) ==
    LET extra == get_extra_payload_bytes(d)
    IN  CASE extra.kind = "Zero" -> Ret(U64FromNat(extra.size))
          [] extra.kind = "Two" /\ Len(d) > 4 ->
                Bind(Slice(d, 2, 4),
                     LAMBDA bytes : Ret(<<0, 0, 0, 0, 0, 0>> \o bytes))
          [] extra.kind = "Eight" /\ Len(d) > 8 ->
                Bind(Slice(d, 2, 10), LAMBDA bytes : Ret(bytes))
          [] OTHER -> Ret(U64FromNat(0))

get_payload_start_pos(d) ==
    LET extra == get_extra_payload_bytes(d)
    IN  CASE extra.kind = "Zero" -> 6
          [] extra.kind = "Two" -> 8
          [] extra.kind = "Eight" -> 14

get_full_frame_length(d) ==
    Bind(get_payload_length(d),
         LAMBDA len : UsizeAdd(U64FromNat(get_payload_start_pos(d)), len))

get_masking_key_start(d) ==
    LET extra == get_extra_payload_bytes(d)
    IN  2 + (CASE extra.kind = "Zero" -> 0
               [] extra.kind = "Two" -> 2
               [] extra.kind = "Eight" -> 8)

\* get_masking_key asking for one byte more than the key
get_masking_key_StrictEnd(d) ==
    LET start == get_masking_key_start(d)
        end == start + 4
    IN  IF is_mask(d) /\ Len(d) > end
        THEN Slice(d, start, end)
        ELSE Ret(<<0, 0, 0, 0>>)

get_masking_key(d) ==
    LET start == get_masking_key_start(d)
        end == start + 4
    IN  IF is_mask(d) /\ Len(d) >= end
        THEN Slice(d, start, end)
        ELSE Ret(<<0, 0, 0, 0>>)

\* Option<(usize, usize)>; the end, which is at most data.len(), as a number
\* get_start_and_end_payload that cuts a range that ends after the buffer
\* down to the bytes that are there
get_start_and_end_payload_Clipped(d) ==
    LET start_payload == get_payload_start_pos(d)
    IN  Bind(get_payload_length(d),
             LAMBDA payload_length :
                IF start_payload > Len(d)
                THEN Ret(None)
                ELSE Bind(UsizeAdd(U64FromNat(start_payload), payload_length),
                          LAMBDA end_payload :
                            IF U64Less(U64FromNat(Len(d)), end_payload)
                            THEN Ret(Some(<<start_payload, Len(d)>>))
                            ELSE Ret(Some(<<start_payload,
                                            U64ToNat(end_payload)>>))))

get_start_and_end_payload(d) ==
    LET start_payload == get_payload_start_pos(d)
    IN  Bind(get_payload_length(d),
             LAMBDA payload_length :
                IF start_payload > Len(d)
                THEN Ret(None)
                ELSE Bind(UsizeAdd(U64FromNat(start_payload), payload_length),
                          LAMBDA end_payload :
                            IF U64Less(U64FromNat(Len(d)), end_payload)
                            THEN Ret(None)
                            ELSE Ret(Some(<<start_payload,
                                            U64ToNat(end_payload)>>))))

get_full_payload(d) == d

\* get_payload without the early return for the Close opcode
get_payload_NoCloseCheck(d) ==
    Bind(get_start_and_end_payload(d),
         LAMBDA range :
            IF ~range.some
            THEN Ret(None)
            ELSE IF range.val[2] > range.val[1]
                 THEN Bind(Slice(d, range.val[1], range.val[2]),
                           LAMBDA p : Ret(Some(p)))
                 ELSE Ret(None))

get_payload(d) ==
    IF OpcodeFrom(get_opcode(d)) = "Close"
    THEN Ret(None)
    ELSE Bind(get_start_and_end_payload(d),
              LAMBDA range :
                IF ~range.some
                THEN Ret(None)
                ELSE IF range.val[2] > range.val[1]
                     THEN Bind(Slice(d, range.val[1], range.val[2]),
                               LAMBDA p : Ret(Some(p)))
                     ELSE Ret(None))

is_closed(d) == OpcodeFrom(get_opcode(d)) = "Close"

\* calculate_masked_data that unmasks from the start of the payload to the
\* end of the buffer
calculate_masked_data_ToEnd(d) ==
    Bind(get_start_and_end_payload(d),
         LAMBDA range :
            IF ~range.some
            THEN Ret(d)
            ELSE Bind(get_masking_key(d),
                      LAMBDA mask :
                        Bind(Slice(d, range.val[1], Len(d)),
                             LAMBDA p :
                                Ret(SubSeq(d, 1, range.val[1])
                                    \o mask_data(p, mask)))))

\* the buffer after calculate_masked_data, or its panic
calculate_masked_data(d) ==
    Bind(get_start_and_end_payload(d),
         LAMBDA range :
            IF ~range.some
            THEN Ret(d)
            ELSE Bind(get_masking_key(d),
                      LAMBDA mask :
                        Bind(Slice(d, range.val[1], range.val[2]),
                             LAMBDA p :
                                Ret(SubSeq(d, 1, range.val[1])
                                    \o mask_data(p, mask)
                                    \o SubSeq(d, range.val[2] + 1, Len(d))))))

\* DataFrame::new: the frame's buffer, or the panic of the constructor
new(d) == calculate_masked_data(d)


\* String::from_utf8_lossy (std): the text as its sequence of code points;
\* each maximal invalid part of the input becomes one U+FFFD
REPLACEMENT_CHARACTER == 65533

IsCont(s, i) == i <= Len(s) /\ s[i] >= 128 /\ s[i] <= 191
InRange(s, i, lo, hi) == i <= Len(s) /\ s[i] >= lo /\ s[i] <= hi

utf8_char_width(b) ==
    CASE b < 128 -> 1
      [] b >= 194 /\ b <= 223 -> 2
      [] b >= 224 /\ b <= 239 -> 3
      [] b >= 240 /\ b <= 244 -> 4
      [] OTHER -> 0

\* whether the second byte of a 3- or 4-byte sequence is one its first allows
SecondOk(s, i) ==
    LET b == s[i]
    IN  CASE b = 224 -> InRange(s, i + 1, 160, 191)
          [] b >= 225 /\ b <= 236 -> InRange(s, i + 1, 128, 191)
          [] b = 237 -> InRange(s, i + 1, 128, 159)
          [] b >= 238 /\ b <= 239 -> InRange(s, i + 1, 128, 191)
          [] b = 240 -> InRange(s, i + 1, 144, 191)
          [] b >= 241 /\ b <= 243 -> InRange(s, i + 1, 128, 191)
          [] b = 244 -> InRange(s, i + 1, 128, 143)
          [] OTHER -> FALSE

\* the chunk that starts at s[i]: [n |-> bytes consumed, cp |-> code point]
Utf8Chunk(s, i) ==
    LET b == s[i]
        w == utf8_char_width(b)
        bad(n) == [n |-> n, cp |-> REPLACEMENT_CHARACTER]
    IN  CASE w = 1 -> [n |-> 1, cp |-> b]
          [] w = 2 ->
                IF IsCont(s, i + 1)
                THEN [n |-> 2, cp |-> (b - 192) * 64 + (s[i + 1] - 128)]
                ELSE bad(1)
          [] w = 3 ->
                IF ~SecondOk(s, i) THEN bad(1)
                ELSE IF ~IsCont(s, i + 2) THEN bad(2)
                ELSE [n |-> 3,
                      cp |-> (b - 224) * 4096 + (s[i + 1] - 128) * 64
                             + (s[i + 2] - 128)]
          [] w = 4 ->
                IF ~SecondOk(s, i) THEN bad(1)
                ELSE IF ~IsCont(s, i + 2) THEN bad(2)
                ELSE IF ~IsCont(s, i + 3) THEN bad(3)
                ELSE [n |-> 4,
                      cp |-> (b - 240) * 262144 + (s[i + 1] - 128) * 4096
                             + (s[i + 2] - 128) * 64 + (s[i + 3] - 128)]
          [] OTHER -> bad(1)

\* the code points of the chunks that start at i..stop, and where the
\* chunk after them starts
RECURSIVE Utf8Run(_, _, _)
Utf8Run(s, i, stop) ==
    IF i > Len(s) \/ i > stop THEN [cps |-> <<>>, next |-> i]
    ELSE LET c == Utf8Chunk(s, i)
             rest == Utf8Run(s, i + c.n, stop)
         IN  [cps |-> <<c.cp>> \o rest.cps, next |-> rest.next]

\* chunk after chunk, 32 starting bytes at a time
RECURSIVE Utf8From(_, _)
Utf8From(s, i) ==
    IF i > Len(s) THEN <<>>
    ELSE LET run == Utf8Run(s, i, i + 31)
         IN  run.cps \o Utf8From(s, run.next)

from_utf8_lossy(s) == Utf8From(s, 1)

\* Option::map
OptionMap(o, F(_)) == IF o.some THEN Some(F(o.val)) ELSE None

text(d) ==
    Bind(get_payload(d),
         LAMBDA o : Ret(OptionMap(o, LAMBDA p : from_utf8_lossy(p))))

binary(d) == get_payload(d)

\* ReadMessage::Text | Binary | Ping | Pong
ReadMessage(kind, v) == [kind |-> kind, val |-> v]

get_message(d) ==
    LET opcode == OpcodeFrom(get_opcode(d))
        as(kind, r) ==
            Bind(r, LAMBDA o :
                        Ret(OptionMap(o, LAMBDA v : ReadMessage(kind, v))))
    IN  CASE opcode = "Ping" -> as("Ping", binary(d))
          [] opcode = "Pong" -> as("Pong", binary(d))
          [] opcode = "Binary" -> as("Binary", binary(d))
          [] opcode = "Text" -> as("Text", text(d))
          [] OTHER -> Ret(None)

\* -------------------------------------------------------------------------
\* message.rs
\* -------------------------------------------------------------------------

\* Message::Text(String) | Binary | Ping | Pong (Vec<u8>) | Close; a String
\* is held as its UTF-8 bytes
Message(kind, v) == [kind |-> kind, val |-> v]
NoMessage == [kind |-> "none", val |-> <<>>]

CLOSE_FRAME == <<136, 3, 98, 121, 101>>

\* impl AsRef<[u8]> for Message
MessageAsRef(m) == IF m.kind = "Close" THEN CLOSE_FRAME ELSE m.val

U32_MAX == <<0, 0, 0, 0, 255, 255, 255, 255>>

\* encode_length with the first arm ending at 124 (0..125 read as exclusive)
encode_length_Exclusive125(size) ==
    CASE ~U64Less(U64FromNat(124), size) -> Ret(<<size[8]>>)
      [] ~U64Less(U32_MAX, size) -> Ret(<<126, size[7], size[8]>>)
      [] U64Less(U32_MAX, size) -> Ret(<<127>> \o size)
      [] OTHER -> Panic

\* the length bytes pushed after the header byte, for data.len() as u64
\* encode_length with the second arm written 126..u32::MAX, upper end excluded
encode_length_ExclusiveU32Max(size) ==
    CASE ~U64Less(U64FromNat(125), size) -> Ret(<<size[8]>>)
      [] U64Less(size, U32_MAX) -> Ret(<<126, size[7], size[8]>>)
      [] ~U64Less(size, U32_MAX) -> Ret(<<127>> \o size)
      [] OTHER -> Panic

encode_length(size) ==
    CASE ~U64Less(U64FromNat(125), size) -> Ret(<<size[8]>>)
      [] ~U64Less(U32_MAX, size) -> Ret(<<126, size[7], size[8]>>)
      [] U64Less(U32_MAX, size) -> Ret(<<127>> \o size)
      [] OTHER -> Panic

HEADER_BYTE == 129

\* message_to_tcp_write_data writing a client-style frame: MASK set and an
\* all-zero masking key before the payload
message_to_tcp_write_data_Masked(bytes) ==
    Bind(encode_length(U64FromNat(Len(bytes))),
         LAMBDA len : Ret(<<HEADER_BYTE, len[1] + 128>> \o Tail(len)
                          \o <<0, 0, 0, 0>> \o bytes))

message_to_tcp_write_data(bytes) ==
    Bind(encode_length(U64FromNat(Len(bytes))),
         LAMBDA len : Ret(<<HEADER_BYTE>> \o len \o bytes))

\* WriteMessage::new
WriteMessageNew(bytes) == message_to_tcp_write_data(bytes)

\* impl From<Message> for WriteMessage
WriteMessageFrom(m) == WriteMessageNew(MessageAsRef(m))


\* -------------------------------------------------------------------------
\* Inputs
\* -------------------------------------------------------------------------

\* payload bytes that follow the masking key of an inbound frame
MaxPayload == 2
\* payload bytes of an outbound message
MaxText == 2

SeqsUpTo(S, n) == UNION {[1..k -> S] : k \in 0..n}
Prefixes(s) == {SubSeq(s, 1, k) : k \in 0..Len(s)}
Fill(n, b) == [i \in 1..n |-> b]

\* FIN with opcodes 0, 1, 2, 3, 8, 9, 10, and a text frame without FIN
FirstBytes == {128, 129, 130, 131, 136, 137, 138, 1}
\* the first bytes tried with an extended length: text and close
ExtFirstBytes == {129, 136}
MaskFlags == {0, 128}
ShortLengths == {0, 1, 2}
Ext16s == {<<0, 0>>, <<0, 1>>, <<255, 255>>}
Ext64s ==
    {U64FromNat(0), U64FromNat(1),
     <<128, 0, 0, 0, 0, 0, 0, 0>>,
     <<255, 255, 255, 255, 255, 255, 255, 255>>}
Keys == {<<90, 212, 118, 181>>, <<0, 0, 0, 0>>}
PayloadBytes == {97, 255}

\* the two header bytes and the extended length of a frame
Headers ==
    {<<b0, m + l>> : b0 \in FirstBytes, m \in MaskFlags, l \in ShortLengths}
    \cup {<<h[1], h[2] + 126>> \o e :
            h \in ExtFirstBytes \X MaskFlags, e \in Ext16s}
    \cup {<<h[1], h[2] + 127>> \o e :
            h \in ExtFirstBytes \X MaskFlags, e \in Ext64s}

\* the bytes after the length field: four bytes (the masking key of a masked
\* frame, payload of an unmasked one) and up to MaxPayload more, and every
\* prefix of that
Tails ==
    UNION {Prefixes(k \o p) : k \in Keys, p \in SeqsUpTo(PayloadBytes, MaxPayload)}

\* tests::test_buffer_hello_world
HELLO_WORLD ==
    <<129, 139, 90, 212, 118, 181, 18, 177, 26, 217, 53, 244, 33, 218, 40,
      184, 18>>

\* what a transport may hand to DataFrame::new: every prefix of a frame, and
\* frames followed by further bytes
Buffers ==
    {h \o t : h \in Headers, t \in Tails}
    \cup UNION {Prefixes(h) : h \in Headers}
    \cup Prefixes(HELLO_WORLD \o <<0, 0, 0, 0>>)

\* payload lengths at the edges of the three length encodings
BoundaryLengths == {125, 126, 127, 65535, 65536}

Messages ==
    {Message(k, v) : k \in {"Text", "Binary", "Ping", "Pong"},
                     v \in SeqsUpTo({97, 98}, MaxText)}
    \cup {Message(k, Fill(n, 97)) : k \in {"Text", "Binary", "Ping", "Pong"},
                                     n \in BoundaryLengths}
    \cup {Message("Close", <<>>)}

Builds == {"debug", "release"}
NoCall == [op |-> "none", ret |-> Ret(<<>>)]

\* -------------------------------------------------------------------------
\* The decoder: a buffer arrives, DataFrame::new, then accessor calls
\* -------------------------------------------------------------------------

\* no payload size is being encoded
LengthIdle == data_len = U64FromNat(0) /\ len_bytes = Ret(<<>>)
\* no handshake is in progress
HandshakeIdle ==
    /\ lines = <<>>
    /\ request = <<>>
    /\ headers = [upgrade |-> None, websocket_key |-> None]
    /\ response = NoCall

\* mask_data is not being called
MaskIdle ==
    plain = <<>> /\ masking_key = <<0, 0, 0, 0>> /\ buffer_mut = <<>> /\ passes = 0
\* no worker threads
WorkersIdle == workers = <<>>

InitDecode ==
    /\ LengthIdle
    /\ HandshakeIdle
    /\ MaskIdle
    /\ WorkersIdle
    /\ build \in Builds
    /\ message = NoMessage
    /\ output = <<>>
    /\ input \in Buffers
    /\ data = <<>>
    /\ pc = "start"
    /\ last = NoCall

\* DataFrame::new(input)
New ==
    /\ pc = "start"
    /\ LET r == new(input)
       IN  IF r.tag = "panic"
           THEN pc' = "panicked" /\ data' = data
           ELSE pc' = "constructed" /\ data' = r.val
    /\ last' = [op |-> "new", ret |-> Ret(<<>>)]
    /\ UNCHANGED <<build, message, output, input, lengthVars, handshakeVars, maskVars, workers>>

\* an accessor that would unmask self.data again before it returns
Call_Remask(op, r) ==
    /\ pc = "constructed"
    /\ last' = [op |-> op, ret |-> r]
    /\ pc' = IF r.tag = "panic" THEN "panicked" ELSE "constructed"
    /\ data' = LET again == calculate_masked_data(data)
               IN  IF again.tag = "panic" THEN data ELSE again.val
    /\ UNCHANGED <<build, message, output, input, lengthVars, handshakeVars, maskVars, workers>>

\* an accessor of the constructed frame: it reads self.data and returns
Call(op, r) ==
    /\ pc = "constructed"
    /\ last' = [op |-> op, ret |-> r]
    /\ pc' = IF r.tag = "panic" THEN "panicked" ELSE "constructed"
    /\ UNCHANGED <<build, message, output, input, data, lengthVars, handshakeVars, maskVars, workers>>

IsFin == Call("is_fin", Ret(is_fin(data)))
IsRsv1 == Call("is_rsv1", Ret(is_rsv1(data)))
IsRsv2 == Call("is_rsv2", Ret(is_rsv2(data)))
IsRsv3 == Call("is_rsv3", Ret(is_rsv3(data)))
GetOpcode == Call("get_opcode", Ret(get_opcode(data)))
IsMask == Call("is_mask", Ret(is_mask(data)))
GetPayloadLength == Call("get_payload_length", get_payload_length(data))
GetMaskingKey == Call("get_masking_key", get_masking_key(data))
GetFullFrameLength == Call("get_full_frame_length", get_full_frame_length(data))
GetFullPayload == Call("get_full_payload", Ret(get_full_payload(data)))
GetPayload == Call("get_payload", get_payload(data))
Text == Call("text", text(data))
Binary == Call("binary", binary(data))
IsClosed == Call("is_closed", Ret(is_closed(data)))
GetMessage == Call("get_message", get_message(data))

Accessor ==
    \/ IsFin \/ IsRsv1 \/ IsRsv2 \/ IsRsv3 \/ GetOpcode \/ IsMask
    \/ GetPayloadLength \/ GetMaskingKey \/ GetFullFrameLength
    \/ GetFullPayload \/ GetPayload \/ Text \/ Binary \/ IsClosed
    \/ GetMessage

NextDecode == New \/ Accessor

SpecDecode == InitDecode /\ [][NextDecode]_vars

\* -------------------------------------------------------------------------
\* The codec: a message is encoded and its frame handed to the decoder
\* -------------------------------------------------------------------------

InitCodec ==
    /\ LengthIdle
    /\ HandshakeIdle
    /\ MaskIdle
    /\ WorkersIdle
    /\ build \in Builds
    /\ message \in Messages
    /\ output = <<>>
    /\ input = <<>>
    /\ data = <<>>
    /\ pc = "message"
    /\ last = NoCall

\* WriteMessage::from(message)
Encode ==
    /\ pc = "message"
    /\ LET r == WriteMessageFrom(message)
       IN  IF r.tag = "panic"
           THEN pc' = "panicked" /\ output' = output
           ELSE pc' = "encoded" /\ output' = r.val
    /\ UNCHANGED <<build, message, input, data, last, lengthVars, handshakeVars, maskVars, workers>>

\* the caller takes get_output() and the peer's decoder receives it
Receive ==
    /\ pc = "encoded"
    /\ input' = output
    /\ pc' = "start"
    /\ UNCHANGED <<build, message, output, data, last, lengthVars, handshakeVars, maskVars, workers>>

NextCodec == Encode \/ Receive \/ New \/ Accessor

SpecCodec == InitCodec /\ [][NextCodec]_vars

\* no frame is being encoded or decoded
FrameIdle ==
    /\ build \in Builds
    /\ message = NoMessage
    /\ output = <<>>
    /\ input = <<>>
    /\ data = <<>>
    /\ last = NoCall

\* -------------------------------------------------------------------------
\* The length bytes of the encoder over the whole range of u64: a payload of
\* more than u32::MAX bytes exists only as its length here
\* -------------------------------------------------------------------------

MaxDataLen == 300
\* data.len() as u64: every length up to MaxDataLen and the lengths around
\* the powers of two where the encoding could change
DataLens ==
    {U64FromNat(n) : n \in 0..MaxDataLen}
    \cup {U64FromNat(65535), U64FromNat(65536), U64FromNat(65537),
          <<0, 0, 0, 0, 255, 255, 255, 254>>, U32_MAX,
          <<0, 0, 0, 1, 0, 0, 0, 0>>, <<0, 0, 0, 1, 0, 0, 0, 1>>,
          <<0, 0, 0, 1, 0, 0, 1, 44>>, <<1, 2, 3, 4, 5, 6, 7, 8>>,
          <<128, 0, 0, 0, 0, 0, 0, 0>>,
          <<255, 255, 255, 255, 255, 255, 255, 255>>}

InitLength ==
    /\ FrameIdle
    /\ HandshakeIdle
    /\ MaskIdle
    /\ WorkersIdle
    /\ data_len \in DataLens
    /\ len_bytes = Ret(<<>>)
    /\ pc = "size"

\* the match on data.len() of message_to_tcp_write_data
PushLength ==
    /\ pc = "size"
    /\ len_bytes' = encode_length(data_len)
    /\ pc' = IF len_bytes'.tag = "panic" THEN "panicked" ELSE "pushed"
    /\ UNCHANGED <<frameVars, data_len, handshakeVars, maskVars, workers>>

NextLength == PushLength

SpecLength == InitLength /\ [][NextLength]_vars


\* -------------------------------------------------------------------------
\* accept/ws_headers.rs: the header extractor.  A &str is the sequence of
\* its code points
\* -------------------------------------------------------------------------

\* "\r\n"
CRLF == <<13, 10>>
\* ": "
COLON_SPACE == <<58, 32>>
\* "Upgrade"
UPGRADE ==
    <<85, 112, 103, 114, 97, 100, 101>>
\* "Sec-WebSocket-Key"
SEC_WEBSOCKET_KEY ==
    <<83, 101, 99, 45, 87, 101, 98, 83, 111, 99, 107, 101, 116, 45, 75,
      101, 121>>
\* "websocket"
WEBSOCKET ==
    <<119, 101, 98, 115, 111, 99, 107, 101, 116>>

\* str::as_bytes: the UTF-8 encoding of the code points
RECURSIVE as_bytes(_)
as_bytes(s) ==
    IF s = <<>> THEN <<>>
    ELSE LET c == Head(s)
             enc == CASE c < 128 -> <<c>>
                      [] c >= 128 /\ c < 2048 ->
                            <<192 + (c \div 64), 128 + (c % 64)>>
                      [] c >= 2048 /\ c < 65536 ->
                            <<224 + (c \div 4096), 128 + ((c \div 64) % 64),
                              128 + (c % 64)>>
                      [] OTHER ->
                            <<240 + (c \div 262144),
                              128 + ((c \div 4096) % 64),
                              128 + ((c \div 64) % 64), 128 + (c % 64)>>
         IN  enc \o as_bytes(Tail(s))

\* the index of the first match of pat in s at or after i, or 0
RECURSIVE find(_, _, _)
find(s, pat, i) ==
    IF i + Len(pat) - 1 > Len(s) THEN 0
    ELSE IF SubSeq(s, i, i + Len(pat) - 1) = pat THEN i
    ELSE find(s, pat, i + 1)

\* str::split(pat): the parts between the matches of pat, left to right
RECURSIVE split(_, _)
split(s, pat) ==
    LET i == find(s, pat, 1)
    IN  IF i = 0 THEN <<s>>
        ELSE <<SubSeq(s, 1, i - 1)>>
             \o split(SubSeq(s, i + Len(pat), Len(s)), pat)

\* str::splitn(2, pat): the part before the first match and the rest
splitn2(s, pat) ==
    LET i == find(s, pat, 1)
    IN  IF i = 0 THEN <<s>>
        ELSE <<SubSeq(s, 1, i - 1), SubSeq(s, i + Len(pat), Len(s))>>

\* WsHeaders::new
WsHeadersNew == [upgrade |-> None, websocket_key |-> None]

\* ASCII lower case of a name
to_ascii_lowercase(s) ==
    [i \in 1..Len(s) |-> IF s[i] >= 65 /\ s[i] <= 90 THEN s[i] + 32 ELSE s[i]]

\* the closure of get_ws_headers_from_str with names compared without
\* regard to case
ws_headers_row_FoldCase(ws_headers, row) ==
    LET splits == splitn2(row, COLON_SPACE)
        name == to_ascii_lowercase(splits[1])
        value == IF Len(splits) = 2 THEN Some(splits[2]) ELSE None
    IN  CASE name = to_ascii_lowercase(UPGRADE) ->
                [ws_headers EXCEPT !.upgrade = value]
          [] name = to_ascii_lowercase(SEC_WEBSOCKET_KEY) ->
                [ws_headers EXCEPT !.websocket_key = value]
          [] OTHER -> ws_headers

\* the closure of get_ws_headers_from_str on one row: (splits.next(),
\* splits.next()) is (Some(name), value), the value None without ": "
ws_headers_row(ws_headers, row) ==
    LET splits == splitn2(row, COLON_SPACE)
        name == splits[1]
        value == IF Len(splits) = 2 THEN Some(splits[2]) ELSE None
    IN  CASE name = UPGRADE -> [ws_headers EXCEPT !.upgrade = value]
          [] name = SEC_WEBSOCKET_KEY ->
                [ws_headers EXCEPT !.websocket_key = value]
          [] OTHER -> ws_headers

RECURSIVE ws_headers_for_each(_, _)
ws_headers_for_each(ws_headers, rows) ==
    IF rows = <<>> THEN ws_headers
    ELSE ws_headers_for_each(ws_headers_row(ws_headers, Head(rows)), Tail(rows))

get_ws_headers_from_str(str) ==
    ws_headers_for_each(WsHeadersNew, split(str, CRLF))

\* WsHeaders::get
WsHeadersGet(ws_headers, key) ==
    CASE key = UPGRADE -> ws_headers.upgrade
      [] key = SEC_WEBSOCKET_KEY -> ws_headers.websocket_key
      [] OTHER -> None

is_websocket(ws_headers) == ws_headers.upgrade = Some(WEBSOCKET)

\* -------------------------------------------------------------------------
\* SHA-1 (const_sha1::sha1) and base64 (base64::encode_config_slice with
\* base64::STANDARD), the two library functions of accept/keys.rs.  A u32
\* is the pair <<high 16 bits, low 16 bits>>
\* -------------------------------------------------------------------------

\* a ^ b and a & b of two 4-bit values, tabulated
NibbleXor == [a \in 0..15 |-> [b \in 0..15 |-> BitXor(a, b, 4)]]
NibbleAnd == [a \in 0..15 |-> [b \in 0..15 |-> BitAnd(a, b, 4)]]
\* a ^ b and a & b of two 16-bit values, nibble by nibble
Xor16(a, b) ==
    NibbleXor[a \div 4096][b \div 4096] * 4096
    + NibbleXor[(a \div 256) % 16][(b \div 256) % 16] * 256
    + NibbleXor[(a \div 16) % 16][(b \div 16) % 16] * 16
    + NibbleXor[a % 16][b % 16]
And16(a, b) ==
    NibbleAnd[a \div 4096][b \div 4096] * 4096
    + NibbleAnd[(a \div 256) % 16][(b \div 256) % 16] * 256
    + NibbleAnd[(a \div 16) % 16][(b \div 16) % 16] * 16
    + NibbleAnd[a % 16][b % 16]

WXor(x, y) == <<Xor16(x[1], y[1]), Xor16(x[2], y[2])>>
WAnd(x, y) == <<And16(x[1], y[1]), And16(x[2], y[2])>>
WNot(x) == <<65535 - x[1], 65535 - x[2]>>
\* x | y
WOr(x, y) == WXor(WXor(x, y), WAnd(x, y))
\* x.wrapping_add(y)
WAdd(x, y) ==
    LET lo == x[2] + y[2]
        hi == x[1] + y[1] + (lo \div 65536)
    IN  <<hi % 65536, lo % 65536>>
\* x.rotate_left(n), 0 < n < 32
WRotl(x, n) ==
    LET w == IF n >= 16 THEN <<x[2], x[1]>> ELSE x
        k == n % 16
        p == 2 ^ k
        q == 2 ^ (16 - k)
    IN  IF k = 0 THEN w
        ELSE <<((w[1] * p) % 65536) + (w[2] \div q),
               ((w[2] * p) % 65536) + (w[1] \div q)>>

\* the message with the bit 1, zero bytes up to 56 mod 64, and the length
\* in bits as 8 big-endian bytes (for messages below 2^28 bytes)
Sha1Pad(msg) ==
    LET n == Len(msg)
        zeros == (119 - (n % 64)) % 64
        bits == 8 * n
    IN  msg \o <<128>> \o [i \in 1..zeros |-> 0]
            \o <<0, 0, 0, 0, (bits \div 16777216) % 256,
                 (bits \div 65536) % 256, (bits \div 256) % 256, bits % 256>>

\* the 16 big-endian words of the 64-byte block that starts after off
Sha1Block(m, off) ==
    [t \in 1..16 |-> <<m[off + 4 * t - 3] * 256 + m[off + 4 * t - 2],
                       m[off + 4 * t - 1] * 256 + m[off + 4 * t]>>]

\* the message schedule: W[t] = (W[t-3] ^ W[t-8] ^ W[t-14] ^ W[t-16]) <<< 1
Sha1Extend(w) ==
    LET t == Len(w) + 1
    IN  Append(w, WRotl(WXor(WXor(w[t - 3], w[t - 8]),
                             WXor(w[t - 14], w[t - 16])), 1))

\* four words at a time
RECURSIVE Sha1Schedule(_)
Sha1Schedule(w) ==
    IF Len(w) = 80 THEN w
    ELSE LET w1 == Sha1Extend(w)
             w2 == Sha1Extend(w1)
             w3 == Sha1Extend(w2)
             w4 == Sha1Extend(w3)
         IN  IF Len(w4) = Len(w) + 4 THEN Sha1Schedule(w4) ELSE w4

Sha1F(t, b, c, d) ==
    CASE t <= 20 -> WOr(WAnd(b, c), WAnd(WNot(b), d))
      [] t > 20 /\ t <= 40 -> WXor(WXor(b, c), d)
      [] t > 40 /\ t <= 60 -> WOr(WOr(WAnd(b, c), WAnd(b, d)), WAnd(c, d))
      [] OTHER -> WXor(WXor(b, c), d)

Sha1K(t) ==
    CASE t <= 20 -> <<23170, 31129>>
      [] t > 20 /\ t <= 40 -> <<28377, 60321>>
      [] t > 40 /\ t <= 60 -> <<36635, 48348>>
      [] OTHER -> <<51810, 49622>>

\* round t on the working variables s = <<a, b, c, d, e>>
Sha1Round(s, w, t) ==
    LET temp == WAdd(WAdd(WAdd(WRotl(s[1], 5), Sha1F(t, s[2], s[3], s[4])),
                          WAdd(s[5], Sha1K(t))), w[t])
    IN  <<temp, s[1], WRotl(s[2], 30), s[3], s[4]>>

\* rounds lo..hi, in order
RECURSIVE Sha1Rounds(_, _, _, _)
Sha1Rounds(s, w, lo, hi) ==
    IF lo = hi THEN Sha1Round(s, w, lo)
    ELSE LET mid == (lo + hi) \div 2
             half == Sha1Rounds(s, w, lo, mid)
         IN  IF Len(half) = 5 THEN Sha1Rounds(half, w, mid + 1, hi) ELSE half

Sha1Compress(h, block) ==
    LET s == Sha1Rounds(h, Sha1Schedule(block), 1, 80)
    IN  [i \in 1..5 |-> WAdd(h[i], s[i])]

RECURSIVE Sha1Blocks(_, _, _)
Sha1Blocks(h, m, off) ==
    IF off >= Len(m) THEN h
    ELSE LET next == Sha1Compress(h, Sha1Block(m, off))
         IN  IF Len(next) = 5 THEN Sha1Blocks(next, m, off + 64) ELSE next

Sha1Init ==
    <<<<26437, 8961>>, <<61389, 43913>>, <<39098, 56574>>,
      <<4146, 21622>>, <<50130, 57840>>>>

\* the 20 bytes of the digest
sha1(msg) ==
    LET h == Sha1Blocks(Sha1Init, Sha1Pad(msg), 0)
    IN  [i \in 1..20 |->
            LET word == h[((i - 1) \div 4) + 1]
                k == (i - 1) % 4
            IN  CASE k = 0 -> word[1] \div 256
                  [] k = 1 -> word[1] % 256
                  [] k = 2 -> word[2] \div 256
                  [] k = 3 -> word[2] % 256]

\* A-Z a-z 0-9 + /
BASE64_STANDARD ==
    <<65, 66, 67, 68, 69, 70, 71, 72, 73, 74, 75, 76, 77, 78, 79, 80, 81,
      82, 83, 84, 85, 86, 87, 88, 89, 90, 97, 98, 99, 100, 101, 102, 103,
      104, 105, 106, 107, 108, 109, 110, 111, 112, 113, 114, 115, 116, 117,
      118, 119, 120, 121, 122, 48, 49, 50, 51, 52, 53, 54, 55, 56, 57, 43,
      47>>
\* "="
BASE64_PAD == 61

\* base64 with padding: 3 bytes to 4 characters, the last group filled
\* with zero bits and closed with "="
RECURSIVE base64_encode(_)
base64_encode(b) ==
    LET ch(v) == BASE64_STANDARD[v + 1]
    IN  CASE Len(b) = 0 -> <<>>
          [] Len(b) = 1 ->
                <<ch(b[1] \div 4), ch((b[1] % 4) * 16), BASE64_PAD, BASE64_PAD>>
          [] Len(b) = 2 ->
                <<ch(b[1] \div 4), ch((b[1] % 4) * 16 + (b[2] \div 16)),
                  ch((b[2] % 16) * 4), BASE64_PAD>>
          [] OTHER ->
                <<ch(b[1] \div 4), ch((b[1] % 4) * 16 + (b[2] \div 16)),
                  ch((b[2] % 16) * 4 + (b[3] \div 64)), ch(b[3] % 64)>>
                \o base64_encode(SubSeq(b, 4, Len(b)))

\* -------------------------------------------------------------------------
\* accept/keys.rs: the handshake key deriver.  A Result is Ok(v) or Err(e)
\* -------------------------------------------------------------------------

\* "258EAFA5-E914-47DA-95CA-C5AB0DC85B11"
MAGIC_GUID ==
    <<50, 53, 56, 69, 65, 70, 65, 53, 45, 69, 57, 49, 52, 45, 52, 55, 68,
      65, 45, 57, 53, 67, 65, 45, 67, 53, 65, 66, 48, 68, 67, 56, 53, 66,
      49, 49>>
\* "HTTP/1.1 101 Switching Protocols\r\nUpgrade: websocket\r\n
\*  Connection: Upgrade\r\nSec-Websocket-Accept: "
ACCEPT_HEADER ==
    <<72, 84, 84, 80, 47, 49, 46, 49, 32, 49, 48, 49, 32, 83, 119, 105,
      116, 99, 104, 105, 110, 103, 32, 80, 114, 111, 116, 111, 99, 111,
      108, 115, 13, 10, 85, 112, 103, 114, 97, 100, 101, 58, 32, 119, 101,
      98, 115, 111, 99, 107, 101, 116, 13, 10, 67, 111, 110, 110, 101, 99,
      116, 105, 111, 110, 58, 32, 85, 112, 103, 114, 97, 100, 101, 13, 10,
      83, 101, 99, 45, 87, 101, 98, 115, 111, 99, 107, 101, 116, 45, 65,
      99, 99, 101, 112, 116, 58, 32>>
\* "\r\n\r\n"
HTTP_EOC == <<13, 10, 13, 10>>

Ok(v) == [ok |-> TRUE, val |-> v]
Err(e) == [ok |-> FALSE, val |-> e]
\* KeyError::InvalidPayload
InvalidPayload == "InvalidPayload"

sha1_bytes(bytes) == sha1(bytes)

\* three copy_from_slice into [0; 129]: a length that differs panics
concat_accept_response_from_response_key(a, b, c) ==
    IF Len(a) = 97 /\ Len(b) = 28 /\ Len(c) = 4
    THEN Ret(a \o b \o c)
    ELSE Panic

\* two copy_from_slice into [0; 60]
concat_key(a, b) ==
    IF Len(a) = 24 /\ Len(b) = 36 THEN Ret(a \o b) ELSE Panic

\* base64::encode_config_slice into a zeroed buffer of n bytes: it panics
\* when the buffer is too small
encode_config_slice(bytes, n) ==
    LET encoded == base64_encode(bytes)
    IN  IF Len(encoded) > n THEN Panic
        ELSE Ret(encoded \o [i \in 1..(n - Len(encoded)) |-> 0])

\* get_response_key over the key followed by a GUID without its last byte
get_response_key_ShortGuid(key) ==
    encode_config_slice(sha1_bytes(key \o SubSeq(MAGIC_GUID, 1, 35)), 28)

get_response_key(key) ==
    Bind(concat_key(key, MAGIC_GUID),
         LAMBDA k : encode_config_slice(sha1_bytes(k), 28))

\* get_accept_response that ends the response with a single CR LF
get_accept_response_OneCrLf(response_key) ==
    Ret(ACCEPT_HEADER \o response_key \o <<13, 10>>)

get_accept_response(response_key) ==
    concat_accept_response_from_response_key(ACCEPT_HEADER, response_key,
                                             HTTP_EOC)

\* impl From<ResponseKey> for AcceptResponse
AcceptResponseFrom(response_key) == get_accept_response(response_key)
\* impl From<AcceptKey> for ResponseKey
ResponseKeyFrom(accept_key) == get_response_key(accept_key)

\* Result::map with a function that may panic
ResultMap(r, F(_)) ==
    IF r.ok THEN Bind(F(r.val), LAMBDA v : Ret(Ok(v))) ELSE Ret(r)

\* impl TryFrom<&[u8]> for AcceptKey that takes the first 24 bytes of a
\* longer buffer
AcceptKeyTryFrom_Prefix(value) ==
    IF Len(value) >= 24 THEN Ok(SubSeq(value, 1, 24)) ELSE Err(InvalidPayload)

\* impl TryFrom<&[u8]> for AcceptKey: <[u8; 24]>::try_from
AcceptKeyTryFrom(value) ==
    IF Len(value) = 24 THEN Ok(value) ELSE Err(InvalidPayload)

\* impl TryFrom<&[u8]> for ResponseKey
ResponseKeyTryFrom(value) ==
    ResultMap(AcceptKeyTryFrom(value), ResponseKeyFrom)

\* impl TryFrom<&[u8]> for AcceptResponse
AcceptResponseTryFrom(value) ==
    Bind(ResponseKeyTryFrom(value),
         LAMBDA r : ResultMap(r, AcceptResponseFrom))

\* the WsHeaders that buffer_to_response_key reads from its input
headers_of(buffer) == get_ws_headers_from_str(from_utf8_lossy(buffer))

\* buffer_to_response_key that takes any Upgrade value
buffer_to_response_key_AnyUpgrade(buffer) ==
    LET hs == headers_of(buffer)
        upgrade == WsHeadersGet(hs, UPGRADE)
        key == WsHeadersGet(hs, SEC_WEBSOCKET_KEY)
    IN  IF upgrade.some /\ key.some
        THEN AcceptResponseTryFrom(as_bytes(key.val))
        ELSE Ret(Err(InvalidPayload))

buffer_to_response_key(buffer) ==
    LET hs == headers_of(buffer)
        upgrade == WsHeadersGet(hs, UPGRADE)
        key == WsHeadersGet(hs, SEC_WEBSOCKET_KEY)
    IN  IF upgrade = Some(WEBSOCKET) /\ key.some
        THEN AcceptResponseTryFrom(as_bytes(key.val))
        ELSE Ret(Err(InvalidPayload))

\* impl FromBuffer<HeaderBuffers> for AcceptResponse, which is what
\* AcceptResponse::from_header_buffer calls
AcceptResponseFromHeaderBuffer(buffer) == buffer_to_response_key(buffer)

\* impl FromBuffer<ResponseKey> for ResponseKey: <[u8; 28]>::try_from
ResponseKeyFromBuffer(buffer) ==
    IF Len(buffer) = 28 THEN Ok(buffer) ELSE Err(InvalidPayload)

\* impl FromBuffer<ResponseKey> for AcceptResponse
AcceptResponseFromBuffer(buffer) ==
    ResultMap(ResponseKeyFromBuffer(buffer), AcceptResponseFrom)

\* -------------------------------------------------------------------------
\* Requests
\* -------------------------------------------------------------------------

\* a row of a request: its name, and its value when ": " follows the name
HeaderLine(name, sep, value) == [name |-> name, sep |-> sep, value |-> value]

\* the bytes of a row
RowBytes(l) == IF l.sep THEN l.name \o COLON_SPACE \o l.value ELSE l.name

\* the request a client sends: every row closed by CR LF, then an empty row
RECURSIVE RenderRows(_)
RenderRows(ls) ==
    IF ls = <<>> THEN <<>>
    ELSE RowBytes(Head(ls)) \o CRLF \o RenderRows(Tail(ls))

Render(ls) == RenderRows(ls) \o CRLF

\* "dGhlIHNhbXBsZSBub25jZQ==", the client key of RFC 6455, section 1.3
KEY_RFC ==
    <<100, 71, 104, 108, 73, 72, 78, 104, 98, 88, 66, 115, 90, 83, 66, 117,
      98, 50, 53, 106, 90, 81, 61, 61>>
\* "+X1HPfJ3J0ZvPaFhlqIAmg==", the client key of the tests
KEY_TEST ==
    <<43, 88, 49, 72, 80, 102, 74, 51, 74, 48, 90, 118, 80, 97, 70, 104,
      108, 113, 73, 65, 109, 103, 61, 61>>
\* 21 times "A" and the byte 0xFF, which is no UTF-8
KEY_NOT_UTF8 ==
    <<65, 65, 65, 65, 65, 65, 65, 65, 65, 65, 65, 65, 65, 65, 65, 65, 65,
      65, 65, 65, 65, 255>>
\* "upgrade"
UPGRADE_LOWER ==
    <<117, 112, 103, 114, 97, 100, 101>>
\* "Host"
HOST ==
    <<72, 111, 115, 116>>
\* "h2c"
H2C == <<104, 50, 99>>
\* "a: b"
A_COLON_B == <<97, 58, 32, 98>>
\* "Upgrade: websocket"
UPGRADE_ROW == UPGRADE \o COLON_SPACE \o WEBSOCKET
\* "GET / HTTP/1.1"
REQUEST_LINE ==
    <<71, 69, 84, 32, 47, 32, 72, 84, 84, 80, 47, 49, 46, 49>>

UpgradeWebsocket == HeaderLine(UPGRADE, TRUE, WEBSOCKET)
UpgradeH2c == HeaderLine(UPGRADE, TRUE, H2C)
\* the row "Upgrade", without separator and value
UpgradeBare == HeaderLine(UPGRADE, FALSE, <<>>)
UpgradeLower == HeaderLine(UPGRADE_LOWER, TRUE, WEBSOCKET)
KeyRfc == HeaderLine(SEC_WEBSOCKET_KEY, TRUE, KEY_RFC)
\* a key whose value holds a separator and is too short
KeyShort == HeaderLine(SEC_WEBSOCKET_KEY, TRUE, A_COLON_B)
KeyBare == HeaderLine(SEC_WEBSOCKET_KEY, FALSE, <<>>)
\* "Host: Upgrade: websocket": another name, a value that looks like a row
HostRow == HeaderLine(HOST, TRUE, UPGRADE_ROW)
RequestLine == HeaderLine(REQUEST_LINE, FALSE, <<>>)

\* the rows that requests are made of
HeaderLines ==
    {UpgradeWebsocket, UpgradeH2c, UpgradeBare, UpgradeLower,
     KeyRfc, KeyShort, KeyBare, HostRow, RequestLine}

\* the request of the tests of ws_headers.rs, row by row
TEST_BUFFER_ROWS == <<
    \* GET / HTTP/1.1
    HeaderLine(
        <<71, 69, 84, 32, 47, 32, 72, 84, 84, 80, 47, 49, 46, 49>>,
        FALSE,
        <<>>),
    \* Host: [::1]:3333
    HeaderLine(
        <<72, 111, 115, 116>>,
        TRUE,
        <<91, 58, 58, 49, 93, 58, 51, 51, 51, 51>>),
    \* User-Agent: Mozilla/5.0 (Windows NT 10.0; Win64; x64; rv:83.0) Gecko/20100101 Firefox/83.0
    HeaderLine(
        <<85, 115, 101, 114, 45, 65, 103, 101, 110, 116>>,
        TRUE,
        <<77, 111, 122, 105, 108, 108, 97, 47, 53, 46, 48, 32, 40, 87, 105,
          110, 100, 111, 119, 115, 32, 78, 84, 32, 49, 48, 46, 48, 59, 32,
          87, 105, 110, 54, 52, 59, 32, 120, 54, 52, 59, 32, 114, 118, 58,
          56, 51, 46, 48, 41, 32, 71, 101, 99, 107, 111, 47, 50, 48, 49,
          48, 48, 49, 48, 49, 32, 70, 105, 114, 101, 102, 111, 120, 47, 56,
          51, 46, 48>>),
    \* Accept: */*
    HeaderLine(
        <<65, 99, 99, 101, 112, 116>>,
        TRUE,
        <<42, 47, 42>>),
    \* Accept-Language: sv-SE,sv;q=0.8,en-US;q=0.5,en;q=0.3
    HeaderLine(
        <<65, 99, 99, 101, 112, 116, 45, 76, 97, 110, 103, 117, 97, 103, 101>>,
        TRUE,
        <<115, 118, 45, 83, 69, 44, 115, 118, 59, 113, 61, 48, 46, 56, 44,
          101, 110, 45, 85, 83, 59, 113, 61, 48, 46, 53, 44, 101, 110, 59,
          113, 61, 48, 46, 51>>),
    \* Accept-Encoding: gzip, deflate
    HeaderLine(
        <<65, 99, 99, 101, 112, 116, 45, 69, 110, 99, 111, 100, 105, 110,
          103>>,
        TRUE,
        <<103, 122, 105, 112, 44, 32, 100, 101, 102, 108, 97, 116, 101>>),
    \* Sec-WebSocket-Version: 13
    HeaderLine(
        <<83, 101, 99, 45, 87, 101, 98, 83, 111, 99, 107, 101, 116, 45, 86,
          101, 114, 115, 105, 111, 110>>,
        TRUE,
        <<49, 51>>),
    \* Origin: moz-extension://720c0260-ac83-4fde-bd5f-e33127fd9e2b
    HeaderLine(
        <<79, 114, 105, 103, 105, 110>>,
        TRUE,
        <<109, 111, 122, 45, 101, 120, 116, 101, 110, 115, 105, 111, 110,
          58, 47, 47, 55, 50, 48, 99, 48, 50, 54, 48, 45, 97, 99, 56, 51,
          45, 52, 102, 100, 101, 45, 98, 100, 53, 102, 45, 101, 51, 51, 49,
          50, 55, 102, 100, 57, 101, 50, 98>>),
    \* Sec-WebSocket-Extensions: permessage-deflate
    HeaderLine(
        <<83, 101, 99, 45, 87, 101, 98, 83, 111, 99, 107, 101, 116, 45, 69,
          120, 116, 101, 110, 115, 105, 111, 110, 115>>,
        TRUE,
        <<112, 101, 114, 109, 101, 115, 115, 97, 103, 101, 45, 100, 101,
          102, 108, 97, 116, 101>>),
    \* Sec-WebSocket-Key: +X1HPfJ3J0ZvPaFhlqIAmg==
    HeaderLine(
        <<83, 101, 99, 45, 87, 101, 98, 83, 111, 99, 107, 101, 116, 45, 75,
          101, 121>>,
        TRUE,
        <<43, 88, 49, 72, 80, 102, 74, 51, 74, 48, 90, 118, 80, 97, 70,
          104, 108, 113, 73, 65, 109, 103, 61, 61>>),
    \* Connection: keep-alive, Upgrade
    HeaderLine(
        <<67, 111, 110, 110, 101, 99, 116, 105, 111, 110>>,
        TRUE,
        <<107, 101, 101, 112, 45, 97, 108, 105, 118, 101, 44, 32, 85, 112,
          103, 114, 97, 100, 101>>),
    \* Pragma: no-cache
    HeaderLine(
        <<80, 114, 97, 103, 109, 97>>,
        TRUE,
        <<110, 111, 45, 99, 97, 99, 104, 101>>),
    \* Cache-Control: no-cache
    HeaderLine(
        <<67, 97, 99, 104, 101, 45, 67, 111, 110, 116, 114, 111, 108>>,
        TRUE,
        <<110, 111, 45, 99, 97, 99, 104, 101>>),
    \* Upgrade: websocket
    HeaderLine(
        <<85, 112, 103, 114, 97, 100, 101>>,
        TRUE,
        <<119, 101, 98, 115, 111, 99, 107, 101, 116>>)>>

\* requests with rows of their own
FixtureRows ==
    {TEST_BUFFER_ROWS,
     <<UpgradeWebsocket, HeaderLine(SEC_WEBSOCKET_KEY, TRUE, KEY_TEST)>>,
     <<UpgradeWebsocket, HeaderLine(SEC_WEBSOCKET_KEY, TRUE, KEY_NOT_UTF8)>>,
     <<UpgradeWebsocket, HeaderLine(SEC_WEBSOCKET_KEY, TRUE, KEY_RFC \o <<61>>)>>}

MaxLines == 3

\* "Ga+00GbDM5gDMIpvKazNVivgt9s=" and "YSeNFgOPIjU+MT511xgtWoI5+EM=", the
\* response keys of the tests of keys.rs
RESPONSE_KEY ==
    <<71, 97, 43, 48, 48, 71, 98, 68, 77, 53, 103, 68, 77, 73, 112, 118,
      75, 97, 122, 78, 86, 105, 118, 103, 116, 57, 115, 61>>
RESPONSE_KEY2 ==
    <<89, 83, 101, 78, 70, 103, 79, 80, 73, 106, 85, 43, 77, 84, 53, 49,
      49, 120, 103, 116, 87, 111, 73, 53, 43, 69, 77, 61>>

\* client keys of 24 bytes: text, zero bytes, and bytes that are no UTF-8
AcceptKeys ==
    {KEY_RFC, KEY_TEST, Fill(24, 65), Fill(24, 0), Fill(24, 255),
     KEY_NOT_UTF8 \o <<61, 61>>}

\* buffers that hold a key and nothing else, and the same buffers one byte
\* shorter and one byte longer
KeyBuffers ==
    LET keys == AcceptKeys \cup {RESPONSE_KEY, RESPONSE_KEY2, Fill(28, 0)}
    IN  keys \cup {SubSeq(k, 1, Len(k) - 1) : k \in keys}
             \cup {k \o <<61>> : k \in keys}

\* -------------------------------------------------------------------------
\* accept_connection.rs: the same handshake with its own WsHeaders, and
\* with Option where accept/keys.rs has Result.  Its items carry the prefix
\* ac_ (functions) or Ac (types and impls)
\* -------------------------------------------------------------------------

\* "258EAFA5-E914-47DA-95CA-C5AB0DC85B11"
ac_MAGIC_GUID ==
    <<50, 53, 56, 69, 65, 70, 65, 53, 45, 69, 57, 49, 52, 45, 52, 55, 68,
    65, 45, 57, 53, 67, 65, 45, 67, 53, 65, 66, 48, 68, 67, 56, 53, 66,
    49, 49>>
\* "HTTP/1.1 101 Switching Protocols\r\nUpgrade: websocket\r\n
\*  Connection: Upgrade\r\nSec-Websocket-Accept: "
ac_ACCEPT_HEADER ==
    <<72, 84, 84, 80, 47, 49, 46, 49, 32, 49, 48, 49, 32, 83, 119, 105,
    116, 99, 104, 105, 110, 103, 32, 80, 114, 111, 116, 111, 99, 111, 108,
    115, 13, 10, 85, 112, 103, 114, 97, 100, 101, 58, 32, 119, 101, 98,
    115, 111, 99, 107, 101, 116, 13, 10, 67, 111, 110, 110, 101, 99, 116,
    105, 111, 110, 58, 32, 85, 112, 103, 114, 97, 100, 101, 13, 10, 83,
    101, 99, 45, 87, 101, 98, 115, 111, 99, 107, 101, 116, 45, 65, 99, 99,
    101, 112, 116, 58, 32>>
\* "\r\n\r\n"
ac_HTTP_EOC == <<13, 10, 13, 10>>

ac_sha1_bytes(bytes) == sha1(bytes)

ac_concat_accept_response_from_response_key(a, b, c) ==
    IF Len(a) = 97 /\ Len(b) = 28 /\ Len(c) = 4
    THEN Ret(a \o b \o c)
    ELSE Panic

ac_concat_key(a, b) ==
    IF Len(a) = 24 /\ Len(b) = 36 THEN Ret(a \o b) ELSE Panic

ac_get_response_key(key) ==
    Bind(ac_concat_key(key, ac_MAGIC_GUID),
         LAMBDA k : encode_config_slice(ac_sha1_bytes(k), 28))

ac_get_accept_response(response_key) ==
    ac_concat_accept_response_from_response_key(ac_ACCEPT_HEADER,
                                                response_key, ac_HTTP_EOC)

\* WsHeaders::new
AcWsHeadersNew == [upgrade |-> None, websocket_key |-> None]
ac_get_upgrade(ws_headers) == ws_headers.upgrade
ac_get_key(ws_headers) == ws_headers.websocket_key
\* WsHeaders::get
AcWsHeadersGet(ws_headers, key) ==
    CASE key = UPGRADE -> ac_get_upgrade(ws_headers)
      [] key = SEC_WEBSOCKET_KEY -> ac_get_key(ws_headers)
      [] OTHER -> None
ac_is_websocket(ws_headers) == ws_headers.upgrade = Some(WEBSOCKET)
\* matches!(self.upgrade, Some(_))
ac_has_key(ws_headers) == ws_headers.upgrade.some

\* the closure of get_ws_headers_from_str on one row
ac_ws_headers_row(ws_headers, row) ==
    LET splits == splitn2(row, COLON_SPACE)
        name == splits[1]
        value == IF Len(splits) = 2 THEN Some(splits[2]) ELSE None
    IN  CASE name = UPGRADE -> [ws_headers EXCEPT !.upgrade = value]
          [] name = SEC_WEBSOCKET_KEY ->
                [ws_headers EXCEPT !.websocket_key = value]
          [] OTHER -> ws_headers

RECURSIVE ac_ws_headers_for_each(_, _)
ac_ws_headers_for_each(ws_headers, rows) ==
    IF rows = <<>> THEN ws_headers
    ELSE ac_ws_headers_for_each(ac_ws_headers_row(ws_headers, Head(rows)),
                                Tail(rows))

ac_get_ws_headers_from_str(str) ==
    ac_ws_headers_for_each(AcWsHeadersNew, split(str, CRLF))

\* Result::ok
ResultOk(r) == IF r.ok THEN Some(r.val) ELSE None

\* impl From<ResponseKey> for AcceptResponse
AcAcceptResponseFrom(response_key) == ac_get_accept_response(response_key)
\* impl From<AcceptKey> for ResponseKey
AcResponseKeyFrom(accept_key) == ac_get_response_key(accept_key)

\* impl TryFrom<&[u8]> for AcceptKey: <[u8; 24]>::try_from
AcAcceptKeyTryFrom(value) ==
    IF Len(value) = 24 THEN Ok(value) ELSE Err(InvalidPayload)

\* impl TryFrom<&[u8]> for ResponseKey: it goes through AcceptKey
AcResponseKeyTryFrom(value) ==
    ResultMap(AcAcceptKeyTryFrom(value), AcResponseKeyFrom)

\* impl TryFrom<&[u8]> for AcceptResponse
AcAcceptResponseTryFrom(value) ==
    Bind(AcResponseKeyTryFrom(value),
         LAMBDA r : ResultMap(r, AcAcceptResponseFrom))

\* the WsHeaders that buffer_to_response_key reads from its input
ac_headers_of(buffer) == ac_get_ws_headers_from_str(from_utf8_lossy(buffer))

\* impl From<WsHeaders> for Option<AcceptResponse> that takes any Upgrade
\* value
AcOptionAcceptResponseFrom_AnyUpgrade(hs) ==
    LET upgrade == AcWsHeadersGet(hs, UPGRADE)
        key == AcWsHeadersGet(hs, SEC_WEBSOCKET_KEY)
    IN  IF upgrade.some /\ key.some
        THEN Bind(AcAcceptResponseTryFrom(as_bytes(key.val)),
                  LAMBDA r : Ret(ResultOk(r)))
        ELSE Ret(None)

\* impl From<WsHeaders> for Option<AcceptResponse>
AcOptionAcceptResponseFrom(hs) ==
    LET upgrade == AcWsHeadersGet(hs, UPGRADE)
        key == AcWsHeadersGet(hs, SEC_WEBSOCKET_KEY)
    IN  IF upgrade = Some(WEBSOCKET) /\ key.some
        THEN Bind(AcAcceptResponseTryFrom(as_bytes(key.val)),
                  LAMBDA r : Ret(ResultOk(r)))
        ELSE Ret(None)

ac_buffer_to_response_key(buffer) ==
    AcOptionAcceptResponseFrom(ac_headers_of(buffer))

\* AcceptResponse::from_buffer
AcAcceptResponseFromBuffer(buffer) == ac_buffer_to_response_key(buffer)

\* WsHeaders::get_key of accept/ws_headers.rs
get_key(ws_headers) == ws_headers.websocket_key
\* WsHeaders::has_key of accept/ws_headers.rs: matches!(self.upgrade, Some(_))
has_key(ws_headers) == ws_headers.upgrade.some

\* -------------------------------------------------------------------------
\* The handshake on one request buffer
\* -------------------------------------------------------------------------

InitHandshake ==
    /\ FrameIdle
    /\ build = "release"
    /\ LengthIdle
    /\ MaskIdle
    /\ WorkersIdle
    /\ \/ /\ lines \in SeqsUpTo(HeaderLines, MaxLines) \cup FixtureRows
          /\ request = Render(lines)
       \/ /\ lines = <<>>
          /\ request \in KeyBuffers
    /\ headers = WsHeadersNew
    /\ response = NoCall
    /\ pc = "request"

\* a handshake entry point returns r for the request buffer
HandshakeCall(op, r) ==
    /\ pc = "request"
    /\ response' = [op |-> op, ret |-> r]
    /\ pc' = IF r.tag = "panic" THEN "panicked" ELSE "done"
    /\ UNCHANGED <<frameVars, lengthVars, lines, request, maskVars, workers>>

\* AcceptResponse::from_header_buffer(request)
FromHeaderBuffer ==
    /\ HandshakeCall("from_header_buffer",
                     AcceptResponseFromHeaderBuffer(request))
    /\ headers' = headers_of(request)

\* <AcceptResponse as FromBuffer<ResponseKey>>::from_buffer(request)
FromBuffer ==
    /\ HandshakeCall("from_buffer", AcceptResponseFromBuffer(request))
    /\ UNCHANGED headers

\* ResponseKey::try_from(request)
TryFrom ==
    /\ HandshakeCall("try_from", ResponseKeyTryFrom(request))
    /\ UNCHANGED headers

\* accept_connection.rs: ResponseKey::try_from(request)
AcTryFrom ==
    /\ HandshakeCall("ac_try_from", AcResponseKeyTryFrom(request))
    /\ UNCHANGED headers

\* accept_connection.rs: AcceptResponse::try_from(request)
AcAcceptTryFrom ==
    /\ HandshakeCall("ac_accept_try_from", AcAcceptResponseTryFrom(request))
    /\ UNCHANGED headers

\* accept_connection.rs: AcceptResponse::from_buffer(request)
AcFromBuffer ==
    /\ HandshakeCall("ac_from_buffer", AcAcceptResponseFromBuffer(request))
    /\ headers' = ac_headers_of(request)

\* accept/ws_headers.rs:
\* WsHeaders::from(&String::from_utf8_lossy(request)).has_key()
HasKey ==
    LET hs == headers_of(request)
    IN  /\ HandshakeCall("has_key", Ret(has_key(hs)))
        /\ headers' = hs

\* accept_connection.rs:
\* WsHeaders::from(&String::from_utf8_lossy(request)).has_key()
AcHasKey ==
    LET hs == ac_headers_of(request)
    IN  /\ HandshakeCall("ac_has_key", Ret(ac_has_key(hs)))
        /\ headers' = hs

NextHandshake == FromHeaderBuffer \/ FromBuffer \/ TryFrom

SpecHandshake == InitHandshake /\ [][NextHandshake]_vars

\* the handshake of accept_connection.rs and has_key of both WsHeaders, on
\* the same request buffers
NextAccept == AcFromBuffer \/ HasKey \/ AcHasKey

SpecAccept == InitHandshake /\ [][NextAccept]_vars

\* the conversions of accept_connection.rs from a slice, on the same buffers
NextAcceptKey == AcTryFrom \/ AcAcceptTryFrom

SpecAcceptKey == InitHandshake /\ [][NextAcceptKey]_vars


\* -------------------------------------------------------------------------
\* mask_data on a caller's bytes, applied again and again with one key
\* -------------------------------------------------------------------------

MaxMaskLen == 5
MaxPasses == 2

\* bytes with no bit, some bits, the top bit and every bit set
MaskBytes == {0, 97, 128, 255}
\* the key of tests::test_buffer_hello_world, the all-zero and the all-one
\* key, and a key of four different bytes
MaskKeys ==
    {<<90, 212, 118, 181>>, <<0, 0, 0, 0>>, <<255, 255, 255, 255>>,
     <<1, 2, 4, 128>>}

InitMask ==
    /\ FrameIdle
    /\ build = "release"
    /\ LengthIdle
    /\ HandshakeIdle
    /\ WorkersIdle
    /\ plain \in SeqsUpTo(MaskBytes, MaxMaskLen)
    /\ masking_key \in MaskKeys
    /\ buffer_mut = plain
    /\ passes = 0
    /\ pc = "mask"

\* mask_data(&mut buffer_mut, masking_key)
MaskData ==
    /\ pc = "mask"
    /\ passes < MaxPasses
    /\ buffer_mut' = mask_data(buffer_mut, masking_key)
    /\ passes' = passes + 1
    /\ UNCHANGED <<frameVars, pc, lengthVars, handshakeVars, plain,
                   masking_key, workers>>

NextMask == MaskData

SpecMask == InitMask /\ [][NextMask]_vars

\* -------------------------------------------------------------------------
\* Worker threads: each owns one buffer and runs the decoder (DataFrame::new
\* and accessors) or the encoder on it; their calls interleave
\* -------------------------------------------------------------------------

MaxWorkers == 2

WorkerIds == 1..MaxWorkers

\* frames for the decoding workers: masked, unmasked, cut short, and a
\* binary frame with another key
WorkerFrames ==
    {<<129, 130, 90, 212, 118, 181, 97, 97>>,
     <<129, 2, 97, 98>>,
     <<129, 130, 90, 212, 118, 181, 97>>,
     <<130, 129, 1, 2, 4, 128, 255>>}
\* payloads for the encoding workers
WorkerPayloads == {<<>>, <<97, 98>>, CLOSE_FRAME}

\* a thread that owns the Vec<u8> it will give to DataFrame::new
DecodeWorker(b) ==
    [kind |-> "decode", own |-> b, frame |-> <<>>, at |-> "start",
     result |-> NoCall]
\* a thread that owns the payload it will give to WriteMessage::new
EncodeWorker(b) ==
    [kind |-> "encode", own |-> b, frame |-> <<>>, at |-> "start",
     result |-> NoCall]

\* DataFrame::new as if every DataFrame shared one buffer: the buffer built
\* by worker w lands in every frame that is not yet constructed
WorkerNew_SharedData(ws, w) ==
    LET r == new(ws[w].own)
    IN  [v \in DOMAIN ws |->
            IF ws[v].kind = "decode" /\ ws[v].at = "start" /\ r.tag # "panic"
            THEN [ws[v] EXCEPT !.frame = r.val, !.at = "constructed",
                               !.result = [op |-> "new", ret |-> Ret(<<>>)]]
            ELSE ws[v]]

\* worker w calls DataFrame::new(own): the Vec moves into the DataFrame
WorkerNew(ws, w) ==
    LET r == new(ws[w].own)
    IN  [ws EXCEPT ![w] =
            IF r.tag = "panic"
            THEN [@ EXCEPT !.at = "panicked"]
            ELSE [@ EXCEPT !.frame = r.val, !.at = "constructed",
                           !.result = [op |-> "new", ret |-> Ret(<<>>)]]]

\* worker w calls an accessor of its DataFrame, which returns r
WorkerCall(ws, w, op, r) ==
    [ws EXCEPT ![w] =
        [@ EXCEPT !.result = [op |-> op, ret |-> r],
                  !.at = IF r.tag = "panic" THEN "panicked" ELSE @]]

\* worker w calls WriteMessage::new(own)
WorkerEncode(ws, w) ==
    LET r == WriteMessageNew(ws[w].own)
    IN  [ws EXCEPT ![w] =
            IF r.tag = "panic"
            THEN [@ EXCEPT !.at = "panicked"]
            ELSE [@ EXCEPT !.frame = r.val, !.at = "encoded",
                           !.result = [op |-> "new", ret |-> Ret(<<>>)]]]

InitWorkers ==
    /\ FrameIdle
    /\ LengthIdle
    /\ HandshakeIdle
    /\ MaskIdle
    /\ workers \in
          [WorkerIds -> {DecodeWorker(b) : b \in WorkerFrames}
                        \cup {EncodeWorker(b) : b \in WorkerPayloads}]
    /\ pc = "workers"

WorkerStep(ws) ==
    /\ pc = "workers"
    /\ workers' = ws
    /\ UNCHANGED <<frameVars, pc, lengthVars, handshakeVars, maskVars>>

DecoderNew ==
    \E w \in WorkerIds :
        /\ workers[w].kind = "decode" /\ workers[w].at = "start"
        /\ WorkerStep(WorkerNew(workers, w))

DecoderGetPayload ==
    \E w \in WorkerIds :
        /\ workers[w].kind = "decode" /\ workers[w].at = "constructed"
        /\ WorkerStep(WorkerCall(workers, w, "get_payload",
                                  get_payload(workers[w].frame)))

DecoderGetMessage ==
    \E w \in WorkerIds :
        /\ workers[w].kind = "decode" /\ workers[w].at = "constructed"
        /\ WorkerStep(WorkerCall(workers, w, "get_message",
                                  get_message(workers[w].frame)))

DecoderGetFullPayload ==
    \E w \in WorkerIds :
        /\ workers[w].kind = "decode" /\ workers[w].at = "constructed"
        /\ WorkerStep(WorkerCall(workers, w, "get_full_payload",
                                  Ret(get_full_payload(workers[w].frame))))

EncoderNew ==
    \E w \in WorkerIds :
        /\ workers[w].kind = "encode" /\ workers[w].at = "start"
        /\ WorkerStep(WorkerEncode(workers, w))

NextWorkers ==
    \/ DecoderNew \/ DecoderGetPayload \/ DecoderGetMessage
    \/ DecoderGetFullPayload \/ EncoderNew

SpecWorkers == InitWorkers /\ [][NextWorkers]_vars

\* -------------------------------------------------------------------------
\* The frame layout of the specification, read off a buffer b independently
\* of the decoder: byte 0 holds FIN, RSV1-3 and the opcode; byte 1 the MASK
\* flag and the length class; then 0, 2 or 8 length bytes; then the masking
\* key when MASK is set; then the payload
\* -------------------------------------------------------------------------

RefOpcode(b) == b[1] % 16
RefMasked(b) == b[2] >= 128
RefClass(b) == b[2] % 128
RefExtBytes(b) == IF RefClass(b) = 126 THEN 2 ELSE IF RefClass(b) = 127 THEN 8 ELSE 0
RefHasLength(b) == Len(b) >= 2 /\ Len(b) >= 2 + RefExtBytes(b)
\* the declared payload length, as a usize
RefLength(b) ==
    CASE RefClass(b) = 126 -> <<0, 0, 0, 0, 0, 0, b[3], b[4]>>
      [] RefClass(b) = 127 -> SubSeq(b, 3, 10)
      [] OTHER -> U64FromNat(RefClass(b))
\* offset of the first payload byte
RefPayloadStart(b) == 2 + RefExtBytes(b) + (IF RefMasked(b) THEN 4 ELSE 0)
\* b begins with a whole frame
RefComplete(b) ==
    /\ RefHasLength(b)
    /\ U64IsSmall(RefLength(b))
    /\ RefPayloadStart(b) + U64ToNat(RefLength(b)) <= Len(b)
RefKey(b) ==
    IF RefMasked(b)
    THEN SubSeq(b, RefPayloadStart(b) - 3, RefPayloadStart(b))
    ELSE <<0, 0, 0, 0>>
\* the payload a peer put into the frame: the received bytes, unmasked
RefPayload(b) ==
    [i \in 1..U64ToNat(RefLength(b)) |->
        Xor8(b[RefPayloadStart(b) + i], RefKey(b)[((i - 1) % 4) + 1])]

\* -------------------------------------------------------------------------
\* Claims
\* -------------------------------------------------------------------------

\* C1: DataFrame::new and every accessor called on the result complete
\* without a panic, for every buffer (here: every prefix of a frame).
C1_NeverPanics == pc # "panicked"

\* C2: whenever get_start_and_end_payload returns a range (start, end) for
\* the buffer given to DataFrame::new, start <= end <= buffer length.
C2_RangeWithinBuffer ==
    pc # "start" =>
        LET r == get_start_and_end_payload(input)
        IN  (r.tag = "ok" /\ r.val.some) =>
                /\ r.val.val[1] <= r.val.val[2]
                /\ r.val.val[2] <= Len(input)

\* C3: decoding the encoder's output for a payload of L bytes gives
\* get_payload_length() == L, for every message the encoder is given.
C3_LengthRoundTrip ==
    message # NoMessage =>
        LET out == WriteMessageFrom(message)
            frame == new(out.val)
        IN  /\ out.tag = "ok"
            /\ frame.tag = "ok"
            /\ get_payload_length(frame.val)
                = Ret(U64FromNat(Len(MessageAsRef(message))))
            /\ (pc = "constructed" => data = frame.val)

\* C4: for a complete frame with the MASK flag unset (payload not empty,
\* opcode not Close), get_payload is the declared-length range that starts
\* right after the length field.
C4_UnmaskedPayload ==
    (/\ pc # "start"
     /\ RefComplete(input)
     /\ ~RefMasked(input)
     /\ RefOpcode(input) # 8
     /\ U64ToNat(RefLength(input)) > 0) =>
        /\ new(input).tag = "ok"
        /\ get_payload(new(input).val)
            = Ret(Some(SubSeq(input, RefPayloadStart(input) + 1,
                              RefPayloadStart(input)
                                + U64ToNat(RefLength(input)))))

\* the C5 case: the buffer begins with a complete masked frame, payload not
\* empty, opcode not Close
MaskedDataFrame(b) ==
    /\ RefComplete(b)
    /\ RefMasked(b)
    /\ RefOpcode(b) # 8
    /\ U64ToNat(RefLength(b)) > 0

\* C5: for a buffer that begins with a complete masked frame (L > 0, opcode
\* not Close), with or without trailing bytes, the frame is constructed and
\* get_payload returns exactly the L payload bytes, byte i being the i-th
\* received payload byte XOR key[i mod 4].
C5_MaskedPayload ==
    (pc # "start" /\ MaskedDataFrame(input)) =>
        /\ new(input).tag = "ok"
        /\ pc = "constructed"
        /\ data = new(input).val
        /\ get_payload(data) = Ret(Some(RefPayload(input)))
        /\ (last.op \in {"get_payload", "binary"} =>
                last.ret = Ret(Some(RefPayload(input))))

\* "Hello World"
HELLO_WORLD_TEXT == <<72, 101, 108, 108, 111, 32, 87, 111, 114, 108, 100>>

\* C5 witness: the Hello World frame followed by four more bytes was
\* constructed and get_payload returned the 11 unmasked bytes.
C5_Witness ==
    /\ pc = "constructed"
    /\ input = HELLO_WORLD \o <<0, 0, 0, 0>>
    /\ MaskedDataFrame(input)
    /\ last = [op |-> "get_payload", ret |-> Ret(Some(HELLO_WORLD_TEXT))]

\* the opcode names of the specification
RefOpcodeName(v) ==
    CASE v = 0 -> "Continuation"
      [] v = 1 -> "Text"
      [] v = 2 -> "Binary"
      [] v = 8 -> "Close"
      [] v = 9 -> "Ping"
      [] v = 10 -> "Pong"
      [] OTHER -> "Unknown"

\* C6: the opcode is the low 4 bits of byte 0, and Opcode::from maps 0, 1,
\* 2, 8, 9, 10 to Continuation, Text, Binary, Close, Ping, Pong and every
\* other value to Unknown.
C6_OpcodeMapping ==
    (pc = "constructed" /\ Len(data) >= 1) =>
        /\ get_opcode(data) = RefOpcode(data)
        /\ OpcodeFrom(get_opcode(data)) = RefOpcodeName(RefOpcode(data))

\* the message the specification gives for a complete frame
RefMessage(b) ==
    LET name == RefOpcodeName(RefOpcode(b))
    IN  CASE name \in {"Ping", "Pong", "Binary"} ->
                Some(ReadMessage(name, RefPayload(b)))
          [] name = "Text" ->
                Some(ReadMessage("Text", from_utf8_lossy(RefPayload(b))))
          [] OTHER -> None

\* C7: for a complete frame with a non-empty payload, get_message is Ping,
\* Pong or Binary with the unmasked payload for opcode 9, 10 or 2, Text with
\* the lossily decoded payload for opcode 1, and None otherwise.
C7_TypedMessage ==
    (/\ pc # "start"
     /\ RefComplete(input)
     /\ U64ToNat(RefLength(input)) > 0) =>
        /\ new(input).tag = "ok"
        /\ get_message(new(input).val) = Ret(RefMessage(input))

\* the payload offset the decoder resolves: 6, 8 or 14 by length class
ResolvedStart(b) ==
    IF Len(b) < 2 THEN 6
    ELSE IF RefClass(b) = 126 THEN 8 ELSE IF RefClass(b) = 127 THEN 14 ELSE 6

\* C8: get_payload is None whenever the opcode is Close, whenever the
\* resolved payload range extends past the end of the buffer, and whenever
\* the payload length is zero; in every other case it is Some(p) with
\* len(p) == get_payload_length() > 0.
C8_PayloadOrNone ==
    pc = "constructed" =>
        LET r == get_payload(data)
            len == get_payload_length(data)
            close == get_opcode(data) = 8
            zero == len.val = U64FromNat(0)
            past ==
                \/ ~U64IsSmall(len.val)
                \/ ResolvedStart(data) + U64ToNat(len.val) > Len(data)
        IN  /\ r.tag = "ok"
            /\ len.tag = "ok"
            /\ (close \/ zero \/ past) => r.val = None
            /\ ~(close \/ zero \/ past) =>
                    /\ r.val.some
                    /\ Len(r.val.val) = U64ToNat(len.val)
                    /\ Len(r.val.val) > 0
            /\ (last.op = "get_payload" => last.ret = r)

\* C8 witness: a close frame that holds its masking key and a non-empty
\* payload was constructed, and get_payload returned None.
C8_Witness ==
    /\ pc = "constructed"
    /\ RefComplete(data)
    /\ RefMasked(data)
    /\ RefOpcode(data) = 8
    /\ U64ToNat(RefLength(data)) > 0
    /\ last = [op |-> "get_payload", ret |-> Ret(None)]

\* C9: the encoder output for Message::Close is exactly the five bytes
\* [136, 3, 98, 121, 101].
C9_CloseFrame ==
    (pc # "message" /\ message.kind = "Close") =>
        output = <<136, 3, 98, 121, 101>>

\* C10: for a Text, Binary, Ping or Pong message whose payload has length
\* L <= 125 the encoder output is the byte 0x81, the byte L, then the
\* payload unchanged.
C10_ShortFrame ==
    (/\ pc # "message"
     /\ message.kind \in {"Text", "Binary", "Ping", "Pong"}
     /\ Len(message.val) <= 125) =>
        /\ output = <<129, Len(message.val)>> \o message.val
        /\ Len(output) = Len(message.val) + 2

\* C10 witness: Text("a") was encoded as [0x81, 0x01, 0x61].
C10_Witness ==
    /\ pc = "encoded"
    /\ message = Message("Text", <<97>>)
    /\ output = <<129, 1, 97>>

\* -------------------------------------------------------------------------
\* C11  The encoder chooses the length bytes by the payload length L alone:
\* for L in 0..=125 the single byte L; for L in 126..=u32::MAX the byte 126
\* and the low 16 bits of L, big-endian; for L above u32::MAX the byte 127
\* and L as 8 big-endian bytes.  One of the three always applies: the final
\* panic arm is never taken
\* -------------------------------------------------------------------------

\* L <= 125 and L <= u32::MAX, read off the bytes of L
RefUpTo125(L) == SubSeq(L, 1, 7) = <<0, 0, 0, 0, 0, 0, 0>> /\ L[8] <= 125
RefUpToU32Max(L) == SubSeq(L, 1, 4) = <<0, 0, 0, 0>>

C11_LengthEncoding ==
    pc \in {"pushed", "panicked"} =>
        /\ pc = "pushed"
        /\ len_bytes.tag = "ok"
        /\ RefUpTo125(data_len) => len_bytes.val = <<data_len[8]>>
        /\ ~RefUpTo125(data_len) /\ RefUpToU32Max(data_len) =>
               len_bytes.val = <<126, data_len[7], data_len[8]>>
        /\ ~RefUpToU32Max(data_len) => len_bytes.val = <<127>> \o data_len

\* a length of u32::MAX + 1 has been given its 8-byte form
C11_Witness ==
    /\ pc = "pushed"
    /\ data_len = <<0, 0, 0, 1, 0, 0, 0, 0>>
    /\ len_bytes = Ret(<<127, 0, 0, 0, 1, 0, 0, 0, 0>>)

\* -------------------------------------------------------------------------
\* C12  Every frame the encoder produces is unmasked: bit 7 of its second
\* byte is 0 and it carries no masking key, so the output is one header
\* byte, one length byte, the 0, 2 or 8 extended length bytes that the
\* length byte announces, and then the payload handed to the encoder,
\* unchanged, as its suffix
\* -------------------------------------------------------------------------

C12_Unmasked ==
    pc \notin {"message", "panicked"} =>
        LET payload == MessageAsRef(message)
            ext == CASE output[2] = 126 -> 2
                     [] output[2] = 127 -> 8
                     [] OTHER -> 0
        IN  /\ Len(output) >= 2
            /\ output[2] < 128
            /\ Len(output) = 1 + 1 + ext + Len(payload)
            /\ SubSeq(output, Len(output) - Len(payload) + 1, Len(output)) = payload

\* Text("ab") was encoded as [0x81, 0x02, 0x61, 0x62]
C12_Witness ==
    /\ pc = "encoded"
    /\ message = Message("Text", <<97, 98>>)
    /\ output = <<129, 2, 97, 98>>

\* -------------------------------------------------------------------------
\* C18  For a buffer that begins with a whole frame, get_full_frame_length
\* is the size of the header (2 bytes, the 0, 2 or 8 extended length bytes,
\* and the 4 key bytes only when MASK is set) plus the payload length: the
\* number of bytes the transport has to consume for this frame
\* -------------------------------------------------------------------------

C18_FullFrameLength ==
    (last.op = "get_full_frame_length" /\ RefComplete(input)) =>
        last.ret = Ret(U64FromNat(RefPayloadStart(input)
                                  + U64ToNat(RefLength(input))))

\* -------------------------------------------------------------------------
\* C19  get_payload_length is the 7-bit value for the classes 0..125, the
\* big-endian u16 of bytes 2..4 for class 126 whenever the buffer has at
\* least 4 bytes, the big-endian u64 of bytes 2..10 for class 127 whenever
\* it has at least 10, and 0 whenever the extended length bytes are not all
\* there
\* -------------------------------------------------------------------------

C19_PayloadLength ==
    (last.op = "get_payload_length" /\ Len(input) >= 2) =>
        last.ret = Ret(IF RefHasLength(input)
                       THEN RefLength(input)
                       ELSE U64FromNat(0))

\* -------------------------------------------------------------------------
\* C20  The accessors of a short buffer fall back to safe values.  Without
\* byte 0: get_opcode is 8, is_closed holds, get_message and get_payload are
\* None, is_fin and is_rsv1..3 are false.  Without byte 1: is_mask is false.
\* get_masking_key is [0, 0, 0, 0] when MASK is unset or the buffer ends
\* before the end of the key (offset 6, 8 or 14), and otherwise the 4 bytes
\* at offset 2, 4 or 10
\* -------------------------------------------------------------------------

\* where the masking key ends in b, by its length class
RefKeyEnd(b) == 2 + RefExtBytes(b) + 4

C20_SafeDefaults ==
    pc = "constructed" =>
        /\ Len(data) = 0 =>
              /\ get_opcode(data) = 8
              /\ is_closed(data)
              /\ get_message(data) = Ret(None)
              /\ get_payload(data) = Ret(None)
              /\ ~is_fin(data) /\ ~is_rsv1(data)
              /\ ~is_rsv2(data) /\ ~is_rsv3(data)
        /\ Len(data) < 2 =>
              /\ ~is_mask(data)
              /\ get_masking_key(data) = Ret(<<0, 0, 0, 0>>)
        /\ Len(data) >= 2 =>
              get_masking_key(data) =
                  Ret(IF RefMasked(data) /\ Len(data) >= RefKeyEnd(data)
                      THEN SubSeq(data, RefKeyEnd(data) - 3, RefKeyEnd(data))
                      ELSE <<0, 0, 0, 0>>)
        /\ last.op = "get_opcode" /\ Len(data) = 0 => last.ret = Ret(8)
        /\ last.op = "is_mask" /\ Len(data) < 2 => last.ret = Ret(FALSE)
        /\ last.op = "get_masking_key" => last.ret = get_masking_key(data)

\* the masking key was asked of a masked frame that ends with its key
C20_Witness ==
    /\ pc = "constructed"
    /\ input = <<129, 128, 90, 212, 118, 181>>
    /\ last = [op |-> "get_masking_key", ret |-> Ret(<<90, 212, 118, 181>>)]

\* the opcode was asked of the empty buffer
C20_WitnessEmpty ==
    /\ pc = "constructed"
    /\ input = <<>>
    /\ last = [op |-> "get_opcode", ret |-> Ret(8)]

\* -------------------------------------------------------------------------
\* C13  AcceptResponse::from_header_buffer returns Err(InvalidPayload)
\* exactly when the request has no Sec-WebSocket-Key header, or the value of
\* its key is not 24 bytes long, or the value of its Upgrade header is not
\* "websocket"; in every other case it returns Ok with a response of 129
\* bytes.  It never panics.  The headers of a request are its rows with a
\* ": " separator; of several rows with one name the last one counts, and
\* a value is read as the text that the request is decoded to
\* -------------------------------------------------------------------------

\* the value of the header called name among the rows ls, if there is one
RefHeader(ls, name) ==
    LET rows == {i \in 1..Len(ls) : ls[i].sep /\ ls[i].name = name}
    IN  IF rows = {} THEN None
        ELSE Some(from_utf8_lossy(
                 ls[CHOOSE i \in rows : \A j \in rows : j <= i].value))

C13_InvalidPayload ==
    response.op = "from_header_buffer" =>
        LET upgrade == RefHeader(lines, UPGRADE)
            key == RefHeader(lines, SEC_WEBSOCKET_KEY)
            valid == /\ key.some
                     /\ Len(as_bytes(key.val)) = 24
                     /\ upgrade = Some(WEBSOCKET)
        IN  /\ pc # "panicked"
            /\ response.ret.tag = "ok"
            /\ IF valid
               THEN response.ret.val.ok /\ Len(response.ret.val.val) = 129
               ELSE response.ret.val = Err(InvalidPayload)

\* -------------------------------------------------------------------------
\* C14  The accept response built from a buffer of 28 bytes through
\* FromBuffer<ResponseKey> has 129 bytes: the fixed preamble of 97 bytes
\* that ends with "Sec-Websocket-Accept: ", the 28 bytes unchanged, and
\* CR LF CR LF.  A buffer of any other length is rejected with
\* InvalidPayload
\* -------------------------------------------------------------------------

\* "Sec-Websocket-Accept: "
SEC_WEBSOCKET_ACCEPT ==
    <<83, 101, 99, 45, 87, 101, 98, 115, 111, 99, 107, 101, 116, 45, 65,
      99, 99, 101, 112, 116, 58, 32>>

C14_AcceptResponse ==
    response.op = "from_buffer" =>
        IF Len(request) = 28
        THEN /\ response.ret.tag = "ok"
             /\ response.ret.val.ok
             /\ LET r == response.ret.val.val
                IN  /\ Len(r) = 129
                    /\ SubSeq(r, 1, 97) = ACCEPT_HEADER
                    /\ SubSeq(r, 76, 97) = SEC_WEBSOCKET_ACCEPT
                    /\ SubSeq(r, 98, 125) = request
                    /\ SubSeq(r, 126, 129) = <<13, 10, 13, 10>>
        ELSE response.ret = Ret(Err(InvalidPayload))

\* the response of the tests was built from their response key
C14_Witness ==
    /\ pc = "done"
    /\ request = RESPONSE_KEY
    /\ response.op = "from_buffer"
    /\ response.ret.val.ok
    /\ response.ret.val.val = ACCEPT_HEADER \o RESPONSE_KEY \o HTTP_EOC

\* -------------------------------------------------------------------------
\* C15  For a client key of 24 bytes the response key has 28 bytes: the
\* padded base64 text of the SHA-1 digest of the key followed by the GUID
\* 258EAFA5-E914-47DA-95CA-C5AB0DC85B11.  The expected texts are those of
\* an independent SHA-1 and base64 for the client keys of the model
\* -------------------------------------------------------------------------

\* KEY_NOT_UTF8 as the text it is decoded to, in UTF-8: U+FFFD for 0xFF
KEY_REPLACED == SubSeq(KEY_NOT_UTF8, 1, 21) \o <<239, 191, 189>>

RefResponseKey(key) ==
    CASE key = KEY_RFC ->
            \* "s3pPLMBiTxaQ9kYGzzhZRbK+xOo="
            <<115, 51, 112, 80, 76, 77, 66, 105, 84, 120, 97, 81, 57, 107,
              89, 71, 122, 122, 104, 90, 82, 98, 75, 43, 120, 79, 111, 61>>
      [] key = KEY_TEST ->
            \* "493V5ZK9gKtVKyFfm8vSPcXUDss="
            <<52, 57, 51, 86, 53, 90, 75, 57, 103, 75, 116, 86, 75, 121,
              70, 102, 109, 56, 118, 83, 80, 99, 88, 85, 68, 115, 115, 61>>
      [] key = Fill(24, 65) ->
            \* "+1XVGPukJlMRXVi0YzK5bWQz38s="
            <<43, 49, 88, 86, 71, 80, 117, 107, 74, 108, 77, 82, 88, 86,
              105, 48, 89, 122, 75, 53, 98, 87, 81, 122, 51, 56, 115, 61>>
      [] key = Fill(24, 0) ->
            \* "X7sdFi1aZDLMcFz+yURsFmFjwvU="
            <<88, 55, 115, 100, 70, 105, 49, 97, 90, 68, 76, 77, 99, 70,
              122, 43, 121, 85, 82, 115, 70, 109, 70, 106, 119, 118, 85, 61>>
      [] key = Fill(24, 255) ->
            \* "3G4KstNuDDmPazZmhx4O3dW5rzg="
            <<51, 71, 52, 75, 115, 116, 78, 117, 68, 68, 109, 80, 97, 122,
              90, 109, 104, 120, 52, 79, 51, 100, 87, 53, 114, 122, 103, 61>>
      [] key = KEY_NOT_UTF8 \o <<61, 61>> ->
            \* "poWlpWo0WuTBUwVRZ+iZSXp5iSM="
            <<112, 111, 87, 108, 112, 87, 111, 48, 87, 117, 84, 66, 85,
              119, 86, 82, 90, 43, 105, 90, 83, 88, 112, 53, 105, 83, 77, 61>>
      [] key = KEY_REPLACED ->
            \* "Gi98WUVkTqLywXE9mPq55C0c6l4="
            <<71, 105, 57, 56, 87, 85, 86, 107, 84, 113, 76, 121, 119, 88,
              69, 57, 109, 80, 113, 53, 53, 67, 48, 99, 54, 108, 52, 61>>

C15_ResponseKey ==
    /\ (response.op = "try_from" /\ request \in AcceptKeys) =>
           /\ response.ret = Ret(Ok(RefResponseKey(request)))
           /\ Len(response.ret.val.val) = 28
    /\ (response.op = "try_from" /\ Len(request) # 24) =>
           response.ret = Ret(Err(InvalidPayload))
    /\ (/\ response.op = "from_header_buffer"
        /\ pc = "done"
        /\ response.ret.val.ok) =>
           SubSeq(response.ret.val.val, 98, 125) =
               RefResponseKey(as_bytes(headers.websocket_key.val))

\* the client key of RFC 6455 gave "s3pPLMBiTxaQ9kYGzzhZRbK+xOo="
C15_Witness ==
    /\ pc = "done"
    /\ request = KEY_RFC
    /\ response.op = "try_from"
    /\ response.ret.val.ok
    /\ response.ret.val.val = RefResponseKey(KEY_RFC)

\* -------------------------------------------------------------------------
\* C16  The header extractor splits the request at CR LF and each row at
\* its first ": ".  get("Upgrade") and get("Sec-WebSocket-Key") return the
\* value of a row whose name is that very text, letter case included; get
\* of any other name is None; and rows with another name change neither of
\* the two values
\* -------------------------------------------------------------------------

\* names that are not tracked, some of them close to the tracked ones
OtherNames ==
    {UPGRADE_LOWER, HOST, REQUEST_LINE, <<>>, UPGRADE \o <<58>>,
     SEC_WEBSOCKET_KEY \o COLON_SPACE, SubSeq(SEC_WEBSOCKET_KEY, 1, 16)}

\* the rows of ls whose name is a tracked one
RECURSIVE TrackedRows(_)
TrackedRows(ls) ==
    IF ls = <<>> THEN <<>>
    ELSE (IF Head(ls).name \in {UPGRADE, SEC_WEBSOCKET_KEY}
          THEN <<Head(ls)>> ELSE <<>>) \o TrackedRows(Tail(ls))

C16_HeaderExtractor ==
    response.op = "from_header_buffer" =>
        /\ \A name \in {UPGRADE, SEC_WEBSOCKET_KEY} :
              LET got == WsHeadersGet(headers, name)
                  named == {i \in 1..Len(lines) : lines[i].name = name}
              IN  /\ got.some =>
                        \E i \in named :
                           /\ lines[i].sep
                           /\ got.val = from_utf8_lossy(lines[i].value)
                  /\ \A i \in named :
                        (named = {i} /\ lines[i].sep) =>
                            got = Some(from_utf8_lossy(lines[i].value))
        /\ \A name \in OtherNames : WsHeadersGet(headers, name) = None
        /\ headers_of(Render(TrackedRows(lines))) = headers

\* the request of the tests gave its key and "websocket"
C16_Witness ==
    /\ pc = "done"
    /\ lines = TEST_BUFFER_ROWS
    /\ response.op = "from_header_buffer"
    /\ WsHeadersGet(headers, SEC_WEBSOCKET_KEY) = Some(KEY_TEST)
    /\ WsHeadersGet(headers, UPGRADE) = Some(WEBSOCKET)

\* -------------------------------------------------------------------------
\* C17  A row without a ": " separator is skipped: a request with such a
\* row at any position gives the same Upgrade and Sec-WebSocket-Key values,
\* and the same handshake result, as the request without that row
\* -------------------------------------------------------------------------

\* ls without its row i
WithoutRow(ls, i) == SubSeq(ls, 1, i - 1) \o SubSeq(ls, i + 1, Len(ls))

C17_MalformedSkipped ==
    response.op = "from_header_buffer" =>
        \A i \in 1..Len(lines) :
            ~lines[i].sep =>
                LET without == Render(WithoutRow(lines, i))
                IN  /\ headers_of(without) = headers
                    /\ AcceptResponseFromHeaderBuffer(without) = response.ret

\* -------------------------------------------------------------------------
\* C21  For a buffer of the 2 header bytes with MASK set and a payload
\* length L > 0, the 4 key bytes, and fewer than L payload bytes,
\* DataFrame::new completes without a panic and changes no byte,
\* get_payload_length is L, get_masking_key is the 4 key bytes, and
\* get_payload is None
\* -------------------------------------------------------------------------

\* b is a masked frame with a one-byte length, its key, and a payload
\* that is cut short
TruncatedMasked(b) ==
    /\ Len(b) >= 6
    /\ RefMasked(b)
    /\ RefClass(b) >= 1 /\ RefClass(b) <= 125
    /\ Len(b) < 6 + RefClass(b)

C21_TruncatedMasked ==
    (pc # "start" /\ TruncatedMasked(input)) =>
        /\ pc = "constructed"
        /\ data = input
        /\ get_payload_length(data) = Ret(U64FromNat(RefClass(input)))
        /\ get_masking_key(data) = Ret(SubSeq(input, 3, 6))
        /\ get_payload(data) = Ret(None)
        /\ last.op = "get_payload_length" =>
              last.ret = Ret(U64FromNat(RefClass(input)))
        /\ last.op = "get_masking_key" => last.ret = Ret(SubSeq(input, 3, 6))
        /\ last.op = "get_payload" => last.ret = Ret(None)

\* get_payload was asked of a text frame that declares 2 payload bytes
\* and holds its key and 1 of them
C21_Witness ==
    /\ pc = "constructed"
    /\ input = <<129, 130, 90, 212, 118, 181, 97>>
    /\ data = input
    /\ last = [op |-> "get_payload", ret |-> Ret(None)]

\* -------------------------------------------------------------------------
\* C22  mask_data is an involution: applied twice with one 4-byte key it
\* gives the bytes back; with the all-zero key it changes nothing; and it
\* never changes the length
\* -------------------------------------------------------------------------

C22_Involution ==
    /\ Len(buffer_mut) = Len(plain)
    /\ passes % 2 = 0 => buffer_mut = plain
    /\ masking_key = <<0, 0, 0, 0>> => buffer_mut = plain
    /\ (passes % 2 = 1 /\ buffer_mut = plain) =>
           \A i \in 1..Len(plain) : masking_key[((i - 1) % 4) + 1] = 0

\* five bytes went through the key of the tests twice and are back
C22_Witness ==
    /\ pc = "mask"
    /\ passes = 2
    /\ masking_key = <<90, 212, 118, 181>>
    /\ plain = <<97, 255, 0, 128, 97>>
    /\ buffer_mut = plain

\* -------------------------------------------------------------------------
\* C23  the buffer is unmasked once, by DataFrame::new: no accessor call
\* changes self.data, which stays the buffer new built, and what an
\* accessor returns is decided by that buffer alone, whatever was called
\* before it, so it is the same on every call
\* -------------------------------------------------------------------------

C23_UnmaskedOnce ==
    pc = "constructed" =>
        LET once == new(input).val
            op == last.op
        IN  /\ data = once
            /\ op = "is_fin" => last.ret = Ret(is_fin(once))
            /\ op = "is_rsv1" => last.ret = Ret(is_rsv1(once))
            /\ op = "is_rsv2" => last.ret = Ret(is_rsv2(once))
            /\ op = "is_rsv3" => last.ret = Ret(is_rsv3(once))
            /\ op = "get_opcode" => last.ret = Ret(get_opcode(once))
            /\ op = "is_mask" => last.ret = Ret(is_mask(once))
            /\ op = "get_payload_length" => last.ret = get_payload_length(once)
            /\ op = "get_masking_key" => last.ret = get_masking_key(once)
            /\ op = "get_full_frame_length" =>
                   last.ret = get_full_frame_length(once)
            /\ op = "get_full_payload" => last.ret = Ret(get_full_payload(once))
            /\ op = "get_payload" => last.ret = get_payload(once)
            /\ op = "text" => last.ret = text(once)
            /\ op = "binary" => last.ret = binary(once)
            /\ op = "is_closed" => last.ret = Ret(is_closed(once))
            /\ op = "get_message" => last.ret = get_message(once)

\* the masked frame of two bytes has been unmasked, and get_payload after
\* another accessor still returns the two unmasked bytes
C23_Witness ==
    /\ pc = "constructed"
    /\ input = <<129, 130, 90, 212, 118, 181, 97, 97>>
    /\ data = <<129, 130, 90, 212, 118, 181, 59, 181>>
    /\ last = [op |-> "get_payload", ret |-> Ret(Some(<<59, 181>>))]

\* -------------------------------------------------------------------------
\* C24  in accept_connection.rs, ResponseKey::try_from on a slice of 28
\* bytes is Ok with those 28 bytes, and AcceptResponse::try_from on the same
\* slice is Ok with the 97 bytes of the preamble, the 28 bytes and
\* CR LF CR LF
\* -------------------------------------------------------------------------

C24_ResponseKeyFromSlice ==
    Len(request) = 28 =>
        /\ response.op = "ac_try_from" =>
               /\ response.ret.tag = "ok"
               /\ response.ret.val.ok
               /\ response.ret.val.val = request
        /\ response.op = "ac_accept_try_from" =>
               /\ response.ret.tag = "ok"
               /\ response.ret.val.ok
               /\ response.ret.val.val =
                      ac_ACCEPT_HEADER \o request \o ac_HTTP_EOC

\* -------------------------------------------------------------------------
\* C25  the decoder and the encoder keep no state between calls and share
\* none: workers that run them in any interleaving, each on its own buffer,
\* get what they would get alone, and a call of one worker changes nothing
\* that belongs to another
\* -------------------------------------------------------------------------

\* what worker w holds is decided by its own buffer alone
WorkerAlone(w) ==
    LET me == workers[w]
        alone == IF me.kind = "decode" THEN new(me.own).val
                 ELSE WriteMessageNew(me.own).val
    IN  /\ me.at = "start" => me.frame = <<>> /\ me.result = NoCall
        /\ me.at \in {"constructed", "encoded"} => me.frame = alone
        /\ me.result.op = "get_payload" => me.result.ret = get_payload(alone)
        /\ me.result.op = "get_message" => me.result.ret = get_message(alone)
        /\ me.result.op = "get_full_payload" =>
               me.result.ret = Ret(get_full_payload(alone))

C25_Workers ==
    /\ [](pc = "workers" => \A w \in WorkerIds : WorkerAlone(w))
    /\ [][pc = "workers" =>
             \A w, v \in WorkerIds :
                 (workers'[w] # workers[w] /\ v # w) =>
                     workers'[v] = workers[v]]_vars

\* one worker has unmasked its frame and read the payload, and the other
\* has built a frame from its payload
C25_Witness ==
    /\ pc = "workers"
    /\ workers[1].kind = "decode"
    /\ workers[1].own = <<129, 130, 90, 212, 118, 181, 97, 97>>
    /\ workers[1].frame = <<129, 130, 90, 212, 118, 181, 59, 181>>
    /\ workers[1].result = [op |-> "get_payload", ret |-> Ret(Some(<<59, 181>>))]
    /\ workers[2].kind = "encode"
    /\ workers[2].own = <<97, 98>>
    /\ workers[2].frame = <<129, 2, 97, 98>>

\* -------------------------------------------------------------------------
\* C26  DataFrame::new changes bytes of the resolved payload range only:
\* the two header bytes, the length bytes, the four bytes before the
\* payload and every byte after the declared end of the payload stay as
\* they were; with MASK unset, or with a range that does not fit into the
\* buffer, get_full_payload is the buffer that was given
\* -------------------------------------------------------------------------

\* the range starts where the key ends and its declared end is in b
RefRangeFits(b) ==
    /\ Len(b) >= RefKeyEnd(b)
    /\ U64IsSmall(RefLength(b))
    /\ RefKeyEnd(b) + U64ToNat(RefLength(b)) <= Len(b)

C26_OnlyPayloadChanges ==
    pc = "constructed" =>
        LET fits == Len(input) >= 2 /\ RefRangeFits(input)
        IN  /\ Len(data) = Len(input)
            /\ \A i \in 1..Len(input) :
                   (\/ ~fits
                    \/ i <= RefKeyEnd(input)
                    \/ i > RefKeyEnd(input) + U64ToNat(RefLength(input))) =>
                       data[i] = input[i]
            /\ (~fits \/ ~RefMasked(input)) =>
                   /\ get_full_payload(data) = input
                   /\ last.op = "get_full_payload" => last.ret = Ret(input)

\* a masked frame of one payload byte, followed by one more byte: the
\* payload byte is unmasked and the byte after it is as it was
C26_Witness ==
    /\ pc = "constructed"
    /\ input = <<129, 129, 90, 212, 118, 181, 97, 97>>
    /\ data = <<129, 129, 90, 212, 118, 181, 59, 97>>
    /\ last.op = "get_full_payload"

\* -------------------------------------------------------------------------
\* C27  WsHeaders::has_key() is true exactly when a Sec-WebSocket-Key header
\* was extracted: has_key() == get_key().is_some(), whatever the Upgrade
\* header is (the WsHeaders of accept/ws_headers.rs and of
\* accept_connection.rs)
\* -------------------------------------------------------------------------

C27_HasKey ==
    /\ response.op = "has_key" =>
           response.ret = Ret(get_key(headers).some)
    /\ response.op = "ac_has_key" =>
           response.ret = Ret(ac_get_key(headers).some)

\* -------------------------------------------------------------------------
\* C28  The two handshakes agree on every request buffer:
\* buffer_to_response_key of accept/keys.rs is Ok(r) exactly when
\* buffer_to_response_key of accept_connection.rs is Some(r'), and then r
\* and r' are the same 129 bytes; it is Err(InvalidPayload) exactly when the
\* other is None
\* -------------------------------------------------------------------------

\* the Result r of accept/keys.rs and the Option o of accept_connection.rs
\* are the same outcome
SameOutcome(r, o) ==
    /\ r.tag = "ok"
    /\ o.tag = "ok"
    /\ r.val.ok = o.val.some
    /\ r.val.ok => r.val.val = o.val.val /\ Len(o.val.val) = 129
    /\ ~r.val.ok => r.val.val = InvalidPayload

C28_SameHandshake ==
    response.op = "ac_from_buffer" =>
        SameOutcome(buffer_to_response_key(request), response.ret)

\* accept_connection.rs answered the request of the tests with the response
\* that holds the response key of its client key
C28_Witness ==
    /\ pc = "done"
    /\ lines = TEST_BUFFER_ROWS
    /\ response.op = "ac_from_buffer"
    /\ response.ret.val.some
    /\ response.ret.val.val =
           ACCEPT_HEADER \o RefResponseKey(KEY_TEST) \o HTTP_EOC
    /\ buffer_to_response_key(request) = Ret(Ok(response.ret.val.val))

\* -------------------------------------------------------------------------
\* C29  When a tracked header name is on several lines of the request, get
\* returns the value of the last of these lines and the handshake uses it:
\* the outcome is that of the last Upgrade line and the last
\* Sec-WebSocket-Key line alone, wherever they are in the request.  Header
\* lines are the rows with a ": " separator, as in C13
\* -------------------------------------------------------------------------

\* the last header line of ls called name, if there is one
LastLine(ls, name) ==
    LET rows == {i \in 1..Len(ls) : ls[i].sep /\ ls[i].name = name}
    IN  IF rows = {} THEN <<>>
        ELSE <<ls[CHOOSE i \in rows : \A j \in rows : j <= i]>>

C29_LastLineWins ==
    response.op = "from_header_buffer" =>
        /\ WsHeadersGet(headers, UPGRADE) = RefHeader(lines, UPGRADE)
        /\ WsHeadersGet(headers, SEC_WEBSOCKET_KEY)
               = RefHeader(lines, SEC_WEBSOCKET_KEY)
        /\ lines # <<>> =>
               response.ret =
                   AcceptResponseFromHeaderBuffer(
                       Render(LastLine(lines, SEC_WEBSOCKET_KEY)
                              \o LastLine(lines, UPGRADE)))

====
